---- MODULE Spec2Model ----
(***************************************************************************)
(* The authentication state machine of fabric_cli (core/fab_auth.py):      *)
(* the FabAuth singleton, its identity record in memory and in auth.json,  *)
(* the credential handle, the token cache file and the configuration       *)
(* options that logout resets.  Every public operation of FabAuth is one   *)
(* action; the calls it makes (logout inside set_tenant inside             *)
(* set_access_mode, ...) are composed as operators over a machine record.  *)
(* The interactive shell (core/fab_interactive.py) is the second machine:  *)
(* the read-eval loop of InteractiveCLI.start_interactive, one action per  *)
(* turn of the loop.                                                       *)
(***************************************************************************)
EXTENDS Integers, Sequences, FiniteSets, TLC

----------------------------------------------------------------------------
(* Bounds of the model *)

NumTenants == 2
NumClients == 2
MaxCustom == 1

----------------------------------------------------------------------------
(* Values *)

\* Python's None, and the empty dict {}
None == "None"
EmptyRec == [k \in {} |-> None]

Tenants == {"tenant" \o ToString(i) : i \in 1..NumTenants}
Clients == {"client" \o ToString(i) : i \in 1..NumClients}

\* `x or y`, `if x`: None and the empty string are falsy
Truthy(x) == x # None /\ x # ""

\* keys of the identity record (con.FAB_TENANT_ID, con.IDENTITY_TYPE, con.FAB_SPN_CLIENT_ID)
FAB_TENANT_ID == "fab_tenant_id"
IDENTITY_TYPE == "identity_type"
FAB_SPN_CLIENT_ID == "fab_spn_client_id"

\* con.AUTH_KEYS[con.IDENTITY_TYPE]: the allowed identity types
AUTH_KEYS_IDENTITY_TYPE == {"user", "service_principal", "managed_identity"}

\* the secrets a caller hands to set_spn
ClientSecret == "client-secret"
CertPassword == "cert-password"
FederatedToken == "federated-token"
PemBytesPlain == "pem-bytes:plain.pem"
PemBytesEnc == "pem-bytes:enc.pem"
SecretValues == {ClientSecret, CertPassword, FederatedToken, PemBytesPlain, PemBytesEnc}

\* certificate files on disk: an unencrypted one and one encrypted with CertPassword
PlainCert == "plain.pem"
EncCert == "enc.pem"

\* dict helpers
Get(d, k) == IF k \in DOMAIN d THEN d[k] ELSE None
Update(d, e) == [k \in DOMAIN d \cup DOMAIN e |-> IF k \in DOMAIN e THEN e[k] ELSE d[k]]

----------------------------------------------------------------------------
(* Configuration options (fab_state_config), as far as logout touches them *)

FlagKeys ==
    {"cache_enabled", "debug_enabled", "show_hidden", "job_cancel_ontimeout",
     "default_open_experience"}
SettingKeys ==
    {"local_definition_labels", "default_capacity", "default_capacity_id",
     "default_az_subscription_id", "default_az_admin", "default_az_resource_group",
     "default_az_location"}
OtherConfigKeys == {"encryption_fallback_enabled"}
ConfigKeys == FlagKeys \cup SettingKeys \cup OtherConfigKeys

\* con.CONFIG_DEFAULT_VALUES
CONFIG_DEFAULT_VALUES == [k \in FlagKeys \cup OtherConfigKeys |-> "default:" \o k]
CustomValue == "custom"

\* the configuration as init_defaults leaves it
DefaultConfig == [k \in ConfigKeys |-> IF k \in DOMAIN CONFIG_DEFAULT_VALUES THEN CONFIG_DEFAULT_VALUES[k] ELSE ""]

\* config.set_config(key, value)
set_config(cfg, key, value) == [cfg EXCEPT ![key] = value]

----------------------------------------------------------------------------
(* State *)

VARIABLES
    auth_info,       \* self._auth_info: the identity record in memory
    auth_file,       \* auth.json on disk
    credential,      \* self._credential: the credential handle
    cache_file,      \* whether cache.bin exists
    config,          \* the configuration options
    aad_public_key,  \* self.aad_public_key: the cached signing key
    environ,         \* os.environ of the running process
    call,            \* the last operation called, with its arguments
    result,          \* how the last operation ended: NoError or the error raised
    events,          \* the side effects of the last operation, in program order
    _is_running,     \* InteractiveCLI._is_running
    repl,            \* where start_interactive stands: "returned", or in its loop at
                     \* "loop" (the top), "prompt" (reading) or "handle_command"
    user_input,      \* the line the last turn of the loop read, or what the read raised
    should_exit,     \* how handle_command ended on that line
    output,          \* what the shell did in its last step, in program order
    exit_status      \* the exit status of the process: <<>> while it runs

auth_vars ==
    <<auth_info, auth_file, credential, cache_file, config, aad_public_key, environ,
      call, result, events>>

shell_vars == <<_is_running, repl, user_input, should_exit, output>>

vars ==
    <<auth_info, auth_file, credential, cache_file, config, aad_public_key, environ,
      call, result, events, _is_running, repl, user_input, should_exit, output,
      exit_status>>

\* self._credential = None
NoCredential == [kind |-> None, tenant |-> None, client |-> None, secret |-> None]

\* the outcome of an operation that returned normally
NoError == [type |-> None, msg |-> None, code |-> None, detail |-> None]
\* raise FabricCLIError(msg, code)
FabricCLIError(msg, code) == [type |-> "FabricCLIError", msg |-> msg, code |-> code, detail |-> None]
\* an exception that is no FabricCLIError (KeyError, AttributeError, a provider's exception)
RawException(type) == [type |-> type, msg |-> None, code |-> None, detail |-> None]

\* an access token: the key id of its header, the key that signed it, its aud and tid claims
NoToken == [kid |-> None, signer |-> None, aud |-> None, tid |-> None]

\* auth.json: absent, of size 0, or a JSON object
AbsentFile == [state |-> "absent", obj |-> EmptyRec]
EmptyFile == [state |-> "empty", obj |-> EmptyRec]

\* json.dumps / json.load of one value: a string is quoted, None is null
AuthorityUrl == "https://login.microsoftonline.com/"
StringValues ==
    Tenants \cup Clients \cup AUTH_KEYS_IDENTITY_TYPE \cup SecretValues \cup {AuthorityUrl}
json_dumps_value(v) == IF v = None THEN "null" ELSE "\"" \o v \o "\""
json_loads_value(s) == IF s = "null" THEN None ELSE CHOOSE v \in StringValues : json_dumps_value(v) = s
json_dumps(d) == [k \in DOMAIN d |-> json_dumps_value(d[k])]
json_load(obj) == [k \in DOMAIN obj |-> json_loads_value(obj[k])]

\* one side effect, with the credential handle and cache file as they are when it happens
Ev(m, e, info) == [e |-> e, info |-> info, cred |-> m.cred, cache |-> m.cache]
Log(m, e, info) == [m EXCEPT !.ev = Append(@, Ev(m, e, info))]

\* the machine record the operations are composed over
Machine ==
    [info |-> auth_info, file |-> auth_file, cred |-> credential, cache |-> cache_file,
     cfg |-> config, key |-> aad_public_key, ev |-> <<>>, err |-> NoError, ret |-> NoToken]

Raise(m, e) == [m EXCEPT !.err = e]

----------------------------------------------------------------------------
(* FabAuth *)

\* a _save_auth that leaves out the keys whose value is None
_save_auth_skipping_null(m) ==
    Log([m EXCEPT !.file = [state |-> "json",
                            obj |-> json_dumps([k \in {x \in DOMAIN m.info : m.info[x] # None}
                                                   |-> m.info[k]])]],
        "write_auth", m.info)

\* _save_auth: the whole record is serialized to auth.json
_save_auth(m) ==
    Log([m EXCEPT !.file = [state |-> "json", obj |-> json_dumps(m.info)]], "write_auth", m.info)

_get_auth_property(m, key) == Get(m.info, key)

_set_auth_property(m, key, value) ==
    _save_auth([m EXCEPT !.info = Update(@, key :> value)])

\* every caller passes str or None values, which are kept as they are
_decode_dict_recursively(d) == [k \in DOMAIN d |-> d[k]]

_set_auth_properties(m, properties) ==
    _save_auth([m EXCEPT !.info = Update(@, _decode_dict_recursively(properties))])

get_tenant_id(m) == _get_auth_property(m, FAB_TENANT_ID)
get_identity_type(m) == _get_auth_property(m, IDENTITY_TYPE)

\* a logout that resets the flags only and leaves the settings as they are
LogoutResetsFlagsOnly ==
    << <<"cache_enabled", CONFIG_DEFAULT_VALUES["cache_enabled"]>>,
       <<"debug_enabled", CONFIG_DEFAULT_VALUES["debug_enabled"]>>,
       <<"show_hidden", CONFIG_DEFAULT_VALUES["show_hidden"]>>,
       <<"job_cancel_ontimeout", CONFIG_DEFAULT_VALUES["job_cancel_ontimeout"]>>,
       <<"default_open_experience", CONFIG_DEFAULT_VALUES["default_open_experience"]>> >>

\* the options logout resets, in program order, each with the value it is reset to
LogoutResets ==
    << <<"cache_enabled", CONFIG_DEFAULT_VALUES["cache_enabled"]>>,
       <<"debug_enabled", CONFIG_DEFAULT_VALUES["debug_enabled"]>>,
       <<"show_hidden", CONFIG_DEFAULT_VALUES["show_hidden"]>>,
       <<"job_cancel_ontimeout", CONFIG_DEFAULT_VALUES["job_cancel_ontimeout"]>>,
       <<"default_open_experience", CONFIG_DEFAULT_VALUES["default_open_experience"]>>,
       <<"local_definition_labels", "">>,
       <<"default_capacity", "">>,
       <<"default_capacity_id", "">>,
       <<"default_az_subscription_id", "">>,
       <<"default_az_admin", "">>,
       <<"default_az_resource_group", "">>,
       <<"default_az_location", "">> >>

RECURSIVE set_configs(_, _)
set_configs(cfg, pairs) ==
    IF pairs = <<>> THEN cfg
    ELSE set_configs(set_config(cfg, Head(pairs)[1], Head(pairs)[2]), Tail(pairs))

\* a logout that removes the cache file without looking whether it exists
logout_removing_unchecked(m) ==
    LET m0 == Log(m, "logout", m.info)
        m1 == [m0 EXCEPT !.info = EmptyRec, !.cred = NoCredential]
        m2 == Log([m1 EXCEPT !.cache = FALSE], "cache_removed", EmptyRec)
        m3 == _save_auth(m2)
    IN  IF ~m1.cache THEN Raise(m1, RawException("FileNotFoundError"))
        ELSE [Log(m3, "config_reset", m3.cfg) EXCEPT !.cfg = set_configs(@, LogoutResets)]

\* logout.  Its first event holds the record, credential handle and cache file it finds;
\* the config_reset event holds the options as they were before the reset.
logout(m) ==
    LET m0 == Log(m, "logout", m.info)
        m1 == [m0 EXCEPT !.info = EmptyRec, !.cred = NoCredential]
        m2 == IF m1.cache THEN Log([m1 EXCEPT !.cache = FALSE], "cache_removed", EmptyRec) ELSE m1
        m3 == _save_auth(m2)
    IN  [Log(m3, "config_reset", m3.cfg) EXCEPT !.cfg = set_configs(@, LogoutResets)]

\* a set_tenant that stores another tenant without logging out
set_tenant_keeping_session(m, tenant_id) ==
    IF tenant_id = None THEN m
    ELSE _set_auth_properties(m, FAB_TENANT_ID :> tenant_id)

\* set_tenant
set_tenant(m, tenant_id) ==
    IF tenant_id = None THEN m
    ELSE LET current_tenant_id == get_tenant_id(m)
             m1 == IF current_tenant_id # None /\ current_tenant_id # tenant_id
                   THEN logout(m) ELSE m
         IN  _set_auth_properties(m1, FAB_TENANT_ID :> tenant_id)

\* a set_access_mode that switches the identity type without logging out
set_access_mode_keeping_session(m, mode, tenant_id) ==
    IF mode \notin AUTH_KEYS_IDENTITY_TYPE
    THEN Raise(m, FabricCLIError("invalid_identity_type", "ERROR_INVALID_ACCESS_MODE"))
    ELSE LET m2 == IF Truthy(tenant_id) /\ get_tenant_id(m) # tenant_id
                   THEN set_tenant(m, tenant_id) ELSE m
         IN  _set_auth_property(m2, IDENTITY_TYPE, mode)

\* a set_access_mode that logs out before it validates the mode
set_access_mode_validating_late(m, mode, tenant_id) ==
    LET m1 == IF mode # get_identity_type(m) THEN logout(m) ELSE m
    IN  IF mode \notin AUTH_KEYS_IDENTITY_TYPE
        THEN Raise(m1, FabricCLIError("invalid_identity_type", "ERROR_INVALID_ACCESS_MODE"))
        ELSE LET m2 == IF Truthy(tenant_id) /\ get_tenant_id(m1) # tenant_id
                       THEN set_tenant(m1, tenant_id) ELSE m1
             IN  _set_auth_property(m2, IDENTITY_TYPE, mode)

\* set_access_mode
set_access_mode(m, mode, tenant_id) ==
    IF mode \notin AUTH_KEYS_IDENTITY_TYPE
    THEN Raise(m, FabricCLIError("invalid_identity_type", "ERROR_INVALID_ACCESS_MODE"))
    ELSE LET m1 == IF mode # get_identity_type(m) THEN logout(m) ELSE m
             m2 == IF Truthy(tenant_id) /\ get_tenant_id(m1) # tenant_id
                   THEN set_tenant(m1, tenant_id) ELSE m1
         IN  _set_auth_property(m2, IDENTITY_TYPE, mode)

\* _parse_certificate: reading the file and loading its private key succeeds when the
\* password given is the one the key is encrypted with (none for an unencrypted key)
_parse_certificate_ok(cert_file_path, password) ==
    \/ cert_file_path = PlainCert /\ ~Truthy(password)
    \/ cert_file_path = EncCert /\ password = CertPassword
_parse_certificate(cert_file_path) ==
    IF cert_file_path = PlainCert THEN PemBytesPlain ELSE PemBytesEnc

\* `self.get_tenant_id() or "common"`
tenant_or_common(m) == IF Truthy(get_tenant_id(m)) THEN get_tenant_id(m) ELSE "common"

SetCredential(m, c) == Log([m EXCEPT !.cred = c], "credential_set", EmptyRec)

\* a change test that takes an absent client id for a different one
client_id_differs(m, client_id) ==
    _get_auth_property(m, FAB_SPN_CLIENT_ID) # client_id

\* "Clear existing credential if client ID changes"
client_id_changes(m, client_id) ==
    /\ _get_auth_property(m, FAB_SPN_CLIENT_ID) # None
    /\ _get_auth_property(m, FAB_SPN_CLIENT_ID) # client_id

\* a validation that lets every call pass
always_an_auth_method(password, cert_path, client_assertion) == TRUE

\* "Validate at least one auth method provided"
any_auth_method(password, cert_path, client_assertion) ==
    Truthy(password) \/ Truthy(cert_path) \/ Truthy(client_assertion)

\* a set_spn that stores the client secret beside the client id
spn_auth_properties_with_secret(client_id, password) ==
    (FAB_SPN_CLIENT_ID :> client_id) @@ (IDENTITY_TYPE :> "service_principal")
        @@ ("fab_spn_client_secret" :> password)

\* "Store ONLY identity_type and client_id in auth.json (NO credentials)"
spn_auth_properties(client_id, password) ==
    (FAB_SPN_CLIENT_ID :> client_id) @@ (IDENTITY_TYPE :> "service_principal")

\* a set_spn that builds a credential from a federated token
spn_credential_accepting_assertion(m, client_id, password, cert_path, client_assertion) ==
    LET tenant_id == tenant_or_common(m)
    IN  IF Truthy(cert_path)
        THEN IF _parse_certificate_ok(cert_path, password)
             THEN SetCredential(m,
                      [kind |-> "CertificateCredential", tenant |-> tenant_id,
                       client |-> client_id, secret |-> _parse_certificate(cert_path)])
             ELSE Raise(m, FabricCLIError("cert_read_failed", "ERROR_INVALID_CERTIFICATE"))
        ELSE IF Truthy(password)
        THEN SetCredential(m,
                 [kind |-> "ClientSecretCredential", tenant |-> tenant_id,
                  client |-> client_id, secret |-> password])
        ELSE IF Truthy(client_assertion)
        THEN SetCredential(m,
                 [kind |-> "ClientAssertionCredential", tenant |-> tenant_id,
                  client |-> client_id, secret |-> client_assertion])
        ELSE m

\* a set_spn that prefers the password to the certificate
spn_credential_secret_first(m, client_id, password, cert_path, client_assertion) ==
    LET tenant_id == tenant_or_common(m)
    IN  IF Truthy(password)
        THEN SetCredential(m,
                 [kind |-> "ClientSecretCredential", tenant |-> tenant_id,
                  client |-> client_id, secret |-> password])
        ELSE IF Truthy(cert_path)
        THEN IF _parse_certificate_ok(cert_path, password)
             THEN SetCredential(m,
                      [kind |-> "CertificateCredential", tenant |-> tenant_id,
                       client |-> client_id, secret |-> _parse_certificate(cert_path)])
             ELSE Raise(m, FabricCLIError("cert_read_failed", "ERROR_INVALID_CERTIFICATE"))
        ELSE IF Truthy(client_assertion)
        THEN Raise(m, FabricCLIError("federated_token_not_supported",
                                     "ERROR_AUTHENTICATION_FAILED"))
        ELSE m

\* "Create credential immediately with runtime credentials"
spn_credential(m, client_id, password, cert_path, client_assertion) ==
    LET tenant_id == tenant_or_common(m)
    IN  IF Truthy(cert_path)
        THEN IF _parse_certificate_ok(cert_path, password)
             THEN SetCredential(m,
                      [kind |-> "CertificateCredential", tenant |-> tenant_id,
                       client |-> client_id, secret |-> _parse_certificate(cert_path)])
             ELSE Raise(m, FabricCLIError("cert_read_failed", "ERROR_INVALID_CERTIFICATE"))
        ELSE IF Truthy(password)
        THEN SetCredential(m,
                 [kind |-> "ClientSecretCredential", tenant |-> tenant_id,
                  client |-> client_id, secret |-> password])
        ELSE IF Truthy(client_assertion)
        THEN Raise(m, FabricCLIError("federated_token_not_supported",
                                     "ERROR_AUTHENTICATION_FAILED"))
        ELSE m

\* set_spn
set_spn(m, client_id, password, cert_path, client_assertion) ==
    IF ~any_auth_method(password, cert_path, client_assertion)
    THEN Raise(m, FabricCLIError("spn_auth_missing_credential", "ERROR_AUTHENTICATION_FAILED"))
    ELSE LET m1 == IF client_id_changes(m, client_id) THEN logout(m) ELSE m
             m2 == _set_auth_properties(m1, spn_auth_properties(client_id, password))
         IN  spn_credential(m2, client_id, password, cert_path, client_assertion)

\* a set_managed_identity that stores the identity type of a user
managed_identity_auth_properties_as_user(client_id) ==
    (FAB_SPN_CLIENT_ID :> client_id) @@ (IDENTITY_TYPE :> "user")

\* "Store ONLY identity_type and client_id in auth.json"
managed_identity_auth_properties(client_id) ==
    (FAB_SPN_CLIENT_ID :> client_id) @@ (IDENTITY_TYPE :> "managed_identity")

\* set_managed_identity
set_managed_identity(m, client_id) ==
    LET m1 == IF client_id_changes(m, client_id) THEN logout(m) ELSE m
        m2 == _set_auth_properties(m1, managed_identity_auth_properties(client_id))
    IN  SetCredential(m2,
            [kind |-> "ManagedIdentityCredential", tenant |-> None,
             client |-> client_id, secret |-> None])

\* a _get_credential that builds the credential of a service principal again
_get_credential_rebuilding_spn(m) ==
    IF m.cred # NoCredential THEN m
    ELSE LET identity_type == get_identity_type(m)
         IN  IF identity_type = "managed_identity"
             THEN SetCredential(m,
                      [kind |-> "ManagedIdentityCredential", tenant |-> None,
                       client |-> _get_auth_property(m, FAB_SPN_CLIENT_ID), secret |-> None])
             ELSE IF identity_type = "service_principal"
             THEN SetCredential(m,
                      [kind |-> "ClientSecretCredential", tenant |-> tenant_or_common(m),
                       client |-> _get_auth_property(m, FAB_SPN_CLIENT_ID),
                       secret |-> ClientSecret])
             ELSE IF identity_type = "user"
             THEN SetCredential(m,
                      [kind |-> "InteractiveBrowserCredential", tenant |-> tenant_or_common(m),
                       client |-> "AUTH_DEFAULT_CLIENT_ID", secret |-> None])
             ELSE m

\* a _get_credential that builds a credential at every call
_get_credential_uncached(m) ==
    LET identity_type == get_identity_type(m)
    IN  IF identity_type = "managed_identity"
        THEN SetCredential(m,
                 [kind |-> "ManagedIdentityCredential", tenant |-> None,
                  client |-> _get_auth_property(m, FAB_SPN_CLIENT_ID), secret |-> None])
        ELSE IF identity_type = "service_principal"
        THEN Raise(m, FabricCLIError("spn_reauthentication_required",
                                     "ERROR_AUTHENTICATION_FAILED"))
        ELSE IF identity_type = "user"
        THEN SetCredential(m,
                 [kind |-> "InteractiveBrowserCredential", tenant |-> tenant_or_common(m),
                  client |-> "AUTH_DEFAULT_CLIENT_ID", secret |-> None])
        ELSE m

\* _get_credential: the credential handle, built from the stored identity when there is none
_get_credential(m) ==
    IF m.cred # NoCredential THEN m
    ELSE LET identity_type == get_identity_type(m)
         IN  IF identity_type = "managed_identity"
             THEN SetCredential(m,
                      [kind |-> "ManagedIdentityCredential", tenant |-> None,
                       client |-> _get_auth_property(m, FAB_SPN_CLIENT_ID), secret |-> None])
             ELSE IF identity_type = "service_principal"
             THEN Raise(m, FabricCLIError("spn_reauthentication_required",
                                          "ERROR_AUTHENTICATION_FAILED"))
             ELSE IF identity_type = "user"
             THEN SetCredential(m,
                      [kind |-> "InteractiveBrowserCredential", tenant |-> tenant_or_common(m),
                       client |-> "AUTH_DEFAULT_CLIENT_ID", secret |-> None])
             ELSE m

----------------------------------------------------------------------------
(* Tokens *)

KeyIds == {"key1", "key2"}

SCOPE_FABRIC_DEFAULT == "scope:fabric"
SCOPE_ONELAKE_DEFAULT == "scope:onelake"
SCOPE_AZURE_DEFAULT == "scope:azure"
UnknownScope == "scope:unknown"
Scopes == {SCOPE_FABRIC_DEFAULT, SCOPE_ONELAKE_DEFAULT, SCOPE_AZURE_DEFAULT, UnknownScope}

FABRIC_TOKEN_AUDIENCE == "aud:fabric"
ONELAKE_TOKEN_AUDIENCE == "aud:onelake"
AZURE_TOKEN_AUDIENCE == "aud:azure"

\* the audience the identity provider issues a token of the scope for
AudienceOf(scope) ==
    IF scope = SCOPE_FABRIC_DEFAULT THEN FABRIC_TOKEN_AUDIENCE
    ELSE IF scope = SCOPE_ONELAKE_DEFAULT THEN ONELAKE_TOKEN_AUDIENCE
    ELSE AZURE_TOKEN_AUDIENCE

\* what the identity provider does during one call: how credential.get_token ends, the key
\* and tenant of the token it issues, and the key set it publishes (none when the fetch
\* fails).  A call that gets no token has nothing else to choose.
ProviderOutcomes(kids) ==
    {[outcome |-> o, kid |-> k, tid |-> t, jwks |-> j] :
        o \in {"cached", "acquired"}, k \in kids, t \in Tenants \cup {None},
        j \in {{}, KeyIds}}
    \cup {[outcome |-> o, kid |-> "key1", tid |-> None, jwks |-> {}] :
              o \in {"failed", "connection_error"}}

\* jwt.decode(token, key, audience=expected_audience, options={"verify_aud": ...})
jwt_decode_ok(token, key, expected_audience) ==
    /\ token.signer = key
    /\ expected_audience # None => token.aud = expected_audience

\* a _decode_jwt_token that caches the key it fetched before it decodes with it
_decode_jwt_token_caching_early(m, token, expected_audience, jwks) ==
    IF m.key # None /\ jwt_decode_ok(token, m.key, expected_audience)
    THEN m
    ELSE LET m1 == Log(m, "fetch_public_key", EmptyRec)
         IN  IF token.kid \in jwks
             THEN IF jwt_decode_ok(token, token.kid, expected_audience)
                  THEN [m1 EXCEPT !.key = token.kid]
                  ELSE Raise([m1 EXCEPT !.key = token.kid],
                             FabricCLIError("jwt_decode_failed", "ERROR_AUTHENTICATION_FAILED"))
             ELSE Raise(m1, FabricCLIError("jwt_decode_failed", "ERROR_AUTHENTICATION_FAILED"))

\* _fetch_public_key_from_aad and _decode_jwt_token: on success the payload is the token's
\* claims; on failure the error is set
_decode_jwt_token(m, token, expected_audience, jwks) ==
    IF m.key # None /\ jwt_decode_ok(token, m.key, expected_audience)
    THEN m
    ELSE LET m1 == Log(m, "fetch_public_key", EmptyRec)
         IN  IF token.kid \in jwks /\ jwt_decode_ok(token, token.kid, expected_audience)
             THEN [m1 EXCEPT !.key = token.kid]
             ELSE Raise(m1, FabricCLIError("jwt_decode_failed", "ERROR_AUTHENTICATION_FAILED"))

\* the bearer token of an environment variable, validated against the audience
env_token(m, env, var, audience, jwks) ==
    LET d == _decode_jwt_token(m, env[var], audience, jwks)
    IN  IF d.err # NoError THEN d ELSE [d EXCEPT !.ret = env[var]]

\* a lookup that returns a bearer token that is set without its pair
_get_access_token_from_env_vars_unpaired(m, env, scope, jwks) ==
    IF scope = SCOPE_FABRIC_DEFAULT /\ "FAB_TOKEN" \in DOMAIN env
    THEN env_token(m, env, "FAB_TOKEN", FABRIC_TOKEN_AUDIENCE, jwks)
    ELSE IF scope = SCOPE_ONELAKE_DEFAULT /\ "FAB_TOKEN_ONELAKE" \in DOMAIN env
    THEN env_token(m, env, "FAB_TOKEN_ONELAKE", ONELAKE_TOKEN_AUDIENCE, jwks)
    ELSE IF "FAB_TOKEN" \in DOMAIN env /\ "FAB_TOKEN_ONELAKE" \in DOMAIN env
    THEN Raise(m, FabricCLIError("invalid_scope", "ERROR_AUTHENTICATION_FAILED"))
    ELSE IF "FAB_TOKEN" \in DOMAIN env \/ "FAB_TOKEN_ONELAKE" \in DOMAIN env
    THEN Raise(m, FabricCLIError("both_fab_and_onelake_tokens_required",
                                 "ERROR_AUTHENTICATION_FAILED"))
    ELSE m

\* _get_access_token_from_env_vars_if_exist
_get_access_token_from_env_vars_if_exist(m, env, scope, jwks) ==
    IF "FAB_TOKEN" \in DOMAIN env /\ "FAB_TOKEN_ONELAKE" \in DOMAIN env
    THEN IF scope = SCOPE_FABRIC_DEFAULT
         THEN env_token(m, env, "FAB_TOKEN", FABRIC_TOKEN_AUDIENCE, jwks)
         ELSE IF scope = SCOPE_ONELAKE_DEFAULT
         THEN env_token(m, env, "FAB_TOKEN_ONELAKE", ONELAKE_TOKEN_AUDIENCE, jwks)
         ELSE IF scope = SCOPE_AZURE_DEFAULT
         THEN IF "FAB_TOKEN_AZURE" \in DOMAIN env
              THEN env_token(m, env, "FAB_TOKEN_AZURE", AZURE_TOKEN_AUDIENCE, jwks)
              ELSE Raise(m, RawException("KeyError"))
         ELSE Raise(m, FabricCLIError("invalid_scope", "ERROR_AUTHENTICATION_FAILED"))
    ELSE IF "FAB_TOKEN" \in DOMAIN env \/ "FAB_TOKEN_ONELAKE" \in DOMAIN env
    THEN Raise(m, FabricCLIError("both_fab_and_onelake_tokens_required",
                                 "ERROR_AUTHENTICATION_FAILED"))
    ELSE m

\* credential.get_token(scope) of the azure.identity credential held by the handle
credential_get_token(m, scope, p) ==
    LET token == [kid |-> p.kid, signer |-> p.kid, aud |-> AudienceOf(scope),
                  tid |-> IF m.cred.tenant \in Tenants THEN m.cred.tenant ELSE p.tid]
        interactive == m.cred.kind = "InteractiveBrowserCredential"
    IN  IF m.cred = NoCredential THEN Raise(m, RawException("AttributeError"))
        ELSE IF scope = UnknownScope THEN Raise(m, RawException("ClientAuthenticationError"))
        ELSE IF p.outcome = "cached" THEN [m EXCEPT !.ret = token]
        ELSE IF p.outcome = "connection_error" THEN Raise(m, RawException("ConnectionError"))
        ELSE LET m1 == IF interactive THEN Log(m, "interactive_prompt", EmptyRec)
                       ELSE Log(m, "token_request", EmptyRec)
             IN  IF p.outcome = "acquired" THEN [m1 EXCEPT !.ret = token]
                 ELSE Raise(m1, RawException("ClientAuthenticationError"))

\* the `except Exception` of get_access_token: every failure of the try block is raised
\* again as a FabricCLIError
access_token_failure(m, identity_type) ==
    IF identity_type = "managed_identity"
    THEN IF m.err.type = "ConnectionError"
         THEN Raise(m, FabricCLIError("managed_identity_connection_failed",
                                      "ERROR_AUTHENTICATION_FAILED"))
         ELSE Raise(m, FabricCLIError("managed_identity_token_failed",
                                      "ERROR_AUTHENTICATION_FAILED"))
    ELSE Raise(m, [FabricCLIError("access_token_error", "ERROR_AUTHENTICATION_FAILED")
                       EXCEPT !.detail = IF m.err.msg # None THEN m.err.msg ELSE m.err.type])

\* "Extract tenant ID from token for user flows": failures are logged, not raised
extract_tenant(m, token, jwks) ==
    LET d == _decode_jwt_token(m, token, None, jwks)
    IN  IF d.err # NoError THEN [d EXCEPT !.err = NoError]
        ELSE IF token.tid # None THEN set_tenant(d, token.tid)
        ELSE d

\* get_access_token
get_access_token(m, env, scope, interactive_renew, p) ==
    LET e == _get_access_token_from_env_vars_if_exist(m, env, scope, p.jwks)
        identity_type == get_identity_type(m)
        c == _get_credential(m)
        t == credential_get_token(c, scope, p)
        \* the silent attempt of a user identity raises the "no cached token" error instead
        t1 == IF t.err # NoError /\ identity_type = "user" /\ ~interactive_renew
              THEN Raise(t, FabricCLIError("no_cached_token", "ERROR_AUTHENTICATION_FAILED"))
              ELSE t
    IN  IF e.err # NoError \/ e.ret # NoToken THEN e
        ELSE IF c.err # NoError THEN access_token_failure(c, identity_type)
        ELSE IF t1.err # NoError THEN access_token_failure(t1, identity_type)
        ELSE IF identity_type = "user"
        THEN [extract_tenant(t1, t1.ret, p.jwks) EXCEPT !.ret = t1.ret]
        ELSE t1

\* get_token_claims: the claims are read from the token by one more decode
get_token_claims(m, env, scope, p) ==
    LET g == get_access_token(m, env, scope, FALSE, p)
    IN  IF g.err # NoError THEN g
        ELSE _decode_jwt_token(g, g.ret, None, p.jwks)

----------------------------------------------------------------------------
(* Construction: __init__, _load_auth, _load_env *)

\* legacy keys of auth.json
FAB_AUTH_MODE == "fab_auth_mode"
FAB_AUTHORITY == "fab_authority"

Remove(d, key) == [k \in DOMAIN d \ {key} |-> d[k]]

\* a _load_auth that migrates the record in memory and leaves the file as it was
_load_auth_without_saving(m) ==
    IF m.file.state = "json"
    THEN LET m1 == [m EXCEPT !.info = json_load(m.file.obj)]
             m2 == IF FAB_AUTH_MODE \in DOMAIN m1.info
                   THEN [m1 EXCEPT !.info =
                            Remove(Update(@, IDENTITY_TYPE :> @[FAB_AUTH_MODE]), FAB_AUTH_MODE)]
                   ELSE m1
         IN  IF FAB_AUTHORITY \in DOMAIN m2.info
             THEN [m2 EXCEPT !.info = Remove(@, FAB_AUTHORITY)]
             ELSE m2
    ELSE [m EXCEPT !.info = EmptyRec]

\* _load_auth
_load_auth(m) ==
    IF m.file.state = "json"
    THEN LET m1 == [m EXCEPT !.info = json_load(m.file.obj)]
             m2 == IF FAB_AUTH_MODE \in DOMAIN m1.info
                   THEN _save_auth([m1 EXCEPT !.info =
                            Remove(Update(@, IDENTITY_TYPE :> @[FAB_AUTH_MODE]), FAB_AUTH_MODE)])
                   ELSE m1
         IN  IF FAB_AUTHORITY \in DOMAIN m2.info
             THEN _save_auth([m2 EXCEPT !.info = Remove(@, FAB_AUTHORITY)])
             ELSE m2
    ELSE [m EXCEPT !.info = EmptyRec]

\* the values of FAB_MANAGED_IDENTITY that enable managed identity (after lower())
managed_identity_enabled(env) ==
    "FAB_MANAGED_IDENTITY" \in DOMAIN env /\ env["FAB_MANAGED_IDENTITY"] \in {"true", "1"}

\* _validate_environment_variables: NoError, or the error raised
_validate_environment_variables(env) ==
    LET auth_env_vars ==
            {"FAB_SPN_CLIENT_ID", "FAB_SPN_CLIENT_SECRET", "FAB_SPN_CERT_PATH",
             "FAB_SPN_FEDERATED_TOKEN", "FAB_SPN_CERT_PASSWORD", "FAB_MANAGED_IDENTITY"}
    IN  IF auth_env_vars \cap DOMAIN env = {} THEN NoError
        ELSE IF managed_identity_enabled(env)
        THEN IF {"FAB_SPN_CLIENT_SECRET", "FAB_SPN_CERT_PATH", "FAB_SPN_FEDERATED_TOKEN"}
                    \cap DOMAIN env # {}
             THEN FabricCLIError("managed_identity_incompatible_vars",
                                 "ERROR_AUTHENTICATION_FAILED")
             ELSE NoError
        ELSE IF "FAB_SPN_CLIENT_ID" \in DOMAIN env
        THEN IF "FAB_TENANT_ID" \notin DOMAIN env
             THEN FabricCLIError("tenant_id_env_var_required", "ERROR_AUTHENTICATION_FAILED")
             \* a == b == c is (a == b) and (b == c)
             ELSE IF /\ ("FAB_SPN_CLIENT_SECRET" \in DOMAIN env) = ("FAB_SPN_CERT_PATH" \in DOMAIN env)
                     /\ ("FAB_SPN_CERT_PATH" \in DOMAIN env) = ("FAB_SPN_FEDERATED_TOKEN" \in DOMAIN env)
             THEN FabricCLIError("spn_auth_missing_credential", "ERROR_AUTHENTICATION_FAILED")
             ELSE NoError
        ELSE NoError

\* _verify_valid_guid_parameter: uuid.UUID accepts the value
valid_guid(value) == value \in Tenants \cup Clients
invalid_guid == FabricCLIError("invalid_guid", "ERROR_INVALID_GUID")

\* _verify_valid_cert_parameter: NoError, or the error raised
MissingCertPath == "missing.pem"
TextCertPath == "cert.txt"
_verify_valid_cert_parameter(path) ==
    IF path \notin {PlainCert, EncCert, TextCertPath}
    THEN FabricCLIError("invalid_cert_path", "ERROR_INVALID_CERTIFICATE_PATH")
    ELSE IF path = TextCertPath
    THEN FabricCLIError("invalid_cert_format", "ERROR_INVALID_CERTIFICATE")
    ELSE NoError

\* the second half of _load_env: the credential the environment configures
load_env_credential(m, env) ==
    LET client_id == Get(env, "FAB_SPN_CLIENT_ID")
    IN  IF "FAB_SPN_CLIENT_ID" \in DOMAIN env /\ "FAB_SPN_CLIENT_SECRET" \in DOMAIN env
        THEN IF ~valid_guid(client_id) THEN Raise(m, invalid_guid)
             ELSE set_spn(m, client_id, env["FAB_SPN_CLIENT_SECRET"], None, None)
        ELSE IF "FAB_SPN_CLIENT_ID" \in DOMAIN env /\ "FAB_SPN_CERT_PATH" \in DOMAIN env
        THEN IF ~valid_guid(client_id) THEN Raise(m, invalid_guid)
             ELSE IF _verify_valid_cert_parameter(env["FAB_SPN_CERT_PATH"]) # NoError
             THEN Raise(m, _verify_valid_cert_parameter(env["FAB_SPN_CERT_PATH"]))
             ELSE set_spn(m, client_id, Get(env, "FAB_SPN_CERT_PASSWORD"),
                          env["FAB_SPN_CERT_PATH"], None)
        ELSE IF "FAB_SPN_CLIENT_ID" \in DOMAIN env /\ "FAB_SPN_FEDERATED_TOKEN" \in DOMAIN env
        THEN IF ~valid_guid(client_id) THEN Raise(m, invalid_guid)
             ELSE set_spn(m, client_id, None, None, env["FAB_SPN_FEDERATED_TOKEN"])
        ELSE IF managed_identity_enabled(env)
        THEN IF Truthy(client_id) /\ ~valid_guid(client_id) THEN Raise(m, invalid_guid)
             ELSE set_managed_identity(m, client_id)
        ELSE m

\* a _load_env that stores the tenant before it validates the variables
_load_env_validating_late(m, env) ==
    IF "FAB_TENANT_ID" \in DOMAIN env /\ ~valid_guid(env["FAB_TENANT_ID"])
    THEN Raise(m, invalid_guid)
    ELSE LET m1 == IF "FAB_TENANT_ID" \in DOMAIN env
                   THEN set_tenant(m, env["FAB_TENANT_ID"]) ELSE m
         IN  IF _validate_environment_variables(env) # NoError
             THEN Raise(m1, _validate_environment_variables(env))
             ELSE load_env_credential(m1, env)

\* _load_env
_load_env(m, env) ==
    IF _validate_environment_variables(env) # NoError
    THEN Raise(m, _validate_environment_variables(env))
    ELSE IF "FAB_TENANT_ID" \in DOMAIN env
    THEN IF ~valid_guid(env["FAB_TENANT_ID"]) THEN Raise(m, invalid_guid)
         ELSE load_env_credential(set_tenant(m, env["FAB_TENANT_ID"]), env)
    ELSE load_env_credential(m, env)

\* FabAuth.__init__ in a new process: no key, no credential, then the two loads
__init__(m, env) ==
    _load_env(_load_auth([m EXCEPT !.key = None, !.cred = NoCredential, !.info = EmptyRec]), env)

----------------------------------------------------------------------------
(* The processes the model runs: their environment and the files they find *)

EnvToken(audience) ==
    [kid |-> "key1", signer |-> "key1", aud |-> audience, tid |-> "tenant1"]

\* os.environ of a process: no variable set, a service principal with its secret,
\* bearer-token overrides, a managed identity
NoEnv == EmptyRec
SpnEnv ==
    ("FAB_TENANT_ID" :> "tenant1") @@ ("FAB_SPN_CLIENT_ID" :> "client1")
        @@ ("FAB_SPN_CLIENT_SECRET" :> ClientSecret)
TokenEnv ==
    ("FAB_TOKEN" :> EnvToken(FABRIC_TOKEN_AUDIENCE))
        @@ ("FAB_TOKEN_ONELAKE" :> EnvToken(ONELAKE_TOKEN_AUDIENCE))
ManagedIdentityEnv == "FAB_MANAGED_IDENTITY" :> "true"

\* auth.json as the first process finds it: none, an empty one, one of an older version
LegacyFile ==
    [state |-> "json",
     obj |-> json_dumps((FAB_AUTH_MODE :> "user") @@ (FAB_AUTHORITY :> AuthorityUrl)
                        @@ (FAB_TENANT_ID :> "tenant1"))]
InitialFiles == {AbsentFile, EmptyFile, LegacyFile}

----------------------------------------------------------------------------
(* InteractiveCLI: the lines it reads *)

\* The longest input line of the model, in segments.
MaxLineLen == 3

\* A line is a sequence of segments.  A segment is one of the five characters the
\* scanners of the shell single out, or a word: a run of characters none of which
\* is whitespace, a quote, a backslash or a pipe.
Space == " "
Pipe == "|"
SingleQuote == "'"
DoubleQuote == "\""
Backslash == "\\"
Specials == {Space, Pipe, SingleQuote, DoubleQuote, Backslash}
Words == {"quit", "help", "desc", "zz"}
Segments == Specials \cup Words
Lines == UNION {[1..n -> Segments] : n \in 0..MaxLineLen}

\* fab_constant: the built-ins, compared with the raw line
INTERACTIVE_QUIT_COMMANDS == {<<"quit">>, <<"exit">>}
INTERACTIVE_HELP_COMMANDS == {<<"help">>}
INTERACTIVE_VERSION_COMMANDS == {<<"version">>}

\* self.subparsers.choices: the registered subcommands
SubparserChoices == {<<"desc">>}

\* str.strip()
RECURSIVE lstrip(_)
lstrip(s) ==
    IF s # <<>> /\ Head(s) = Space THEN lstrip(Tail(s)) ELSE s

RECURSIVE rstrip(_)
rstrip(s) ==
    IF s # <<>> /\ s[Len(s)] = Space THEN rstrip(SubSeq(s, 1, Len(s) - 1)) ELSE s

strip(s) == rstrip(lstrip(s))

\* The loop of _has_pipe from position i (counted from 1).
\* a _has_pipe that does not track the quotes
RECURSIVE _has_pipe_from_ignoring_quotes(_, _, _, _)
_has_pipe_from_ignoring_quotes(command, i, in_single_quote, in_double_quote) ==
    IF i > Len(command) THEN FALSE
    ELSE IF command[i] = Backslash /\ i < Len(command)
         THEN _has_pipe_from_ignoring_quotes(command, i + 2, in_single_quote, in_double_quote)
    ELSE IF command[i] = Pipe THEN TRUE
    ELSE _has_pipe_from_ignoring_quotes(command, i + 1, in_single_quote, in_double_quote)

RECURSIVE _has_pipe_from(_, _, _, _)
_has_pipe_from(command, i, in_single_quote, in_double_quote) ==
    IF i > Len(command) THEN FALSE
    ELSE IF command[i] = Backslash /\ i < Len(command)
         THEN _has_pipe_from(command, i + 2, in_single_quote, in_double_quote)
    ELSE IF command[i] = SingleQuote /\ ~in_double_quote
         THEN _has_pipe_from(command, i + 1, ~in_single_quote, in_double_quote)
    ELSE IF command[i] = DoubleQuote /\ ~in_single_quote
         THEN _has_pipe_from(command, i + 1, in_single_quote, ~in_double_quote)
    ELSE IF command[i] = Pipe /\ ~in_single_quote /\ ~in_double_quote
         THEN TRUE
    ELSE _has_pipe_from(command, i + 1, in_single_quote, in_double_quote)

_has_pipe(command) == _has_pipe_from(command, 1, FALSE, FALSE)

\* a _split_pipe that does not know the backslash
RECURSIVE _split_pipe_from_ignoring_escapes(_, _, _, _)
_split_pipe_from_ignoring_escapes(command, i, in_single_quote, in_double_quote) ==
    IF i > Len(command) THEN <<strip(command), <<>> >>
    ELSE IF command[i] = SingleQuote /\ ~in_double_quote
         THEN _split_pipe_from_ignoring_escapes(command, i + 1, ~in_single_quote,
                                                in_double_quote)
    ELSE IF command[i] = DoubleQuote /\ ~in_single_quote
         THEN _split_pipe_from_ignoring_escapes(command, i + 1, in_single_quote,
                                                ~in_double_quote)
    ELSE IF command[i] = Pipe /\ ~in_single_quote /\ ~in_double_quote
         THEN <<strip(SubSeq(command, 1, i - 1)), strip(SubSeq(command, i + 1, Len(command)))>>
    ELSE _split_pipe_from_ignoring_escapes(command, i + 1, in_single_quote, in_double_quote)

\* The loop of _split_pipe from position i (counted from 1).
RECURSIVE _split_pipe_from(_, _, _, _)
_split_pipe_from(command, i, in_single_quote, in_double_quote) ==
    IF i > Len(command) THEN <<strip(command), <<>> >>
    ELSE IF command[i] = Backslash /\ i < Len(command)
         THEN _split_pipe_from(command, i + 2, in_single_quote, in_double_quote)
    ELSE IF command[i] = SingleQuote /\ ~in_double_quote
         THEN _split_pipe_from(command, i + 1, ~in_single_quote, in_double_quote)
    ELSE IF command[i] = DoubleQuote /\ ~in_single_quote
         THEN _split_pipe_from(command, i + 1, in_single_quote, ~in_double_quote)
    ELSE IF command[i] = Pipe /\ ~in_single_quote /\ ~in_double_quote
         THEN <<strip(SubSeq(command, 1, i - 1)), strip(SubSeq(command, i + 1, Len(command)))>>
    ELSE _split_pipe_from(command, i + 1, in_single_quote, in_double_quote)

_split_pipe(command) == _split_pipe_from(command, 1, FALSE, FALSE)

\* shlex.split(s): the tokens of s by the POSIX rules of the standard library, or the
\* ValueError it raises.  shlex_read is shlex.read_token run to the end of s from
\* position i: state is " " between tokens, "a" inside a word, a quote inside quotes,
\* the backslash after an escape character.
Quotes == {SingleQuote, DoubleQuote}

ShlexTokens(tokens) == [err |-> None, parts |-> tokens]
ShlexError(message) == [err |-> message, parts |-> <<>>]

RECURSIVE shlex_read(_, _, _, _, _, _, _)
shlex_read(s, i, state, escapedstate, token, quoted, tokens) ==
    IF i > Len(s) THEN
        IF state \in Quotes THEN ShlexError("No closing quotation")
        ELSE IF state = Backslash THEN ShlexError("No escaped character")
        ELSE IF state = "a" /\ (token # <<>> \/ quoted)
             THEN ShlexTokens(Append(tokens, token))
        ELSE ShlexTokens(tokens)
    ELSE LET nextchar == s[i] IN
        IF state = " " THEN
            IF nextchar = Space
            THEN shlex_read(s, i + 1, " ", escapedstate, <<>>, FALSE, tokens)
            ELSE IF nextchar = Backslash
            THEN shlex_read(s, i + 1, Backslash, "a", <<>>, FALSE, tokens)
            ELSE IF nextchar \in Quotes
            THEN shlex_read(s, i + 1, nextchar, escapedstate, <<>>, FALSE, tokens)
            ELSE shlex_read(s, i + 1, "a", escapedstate, <<nextchar>>, FALSE, tokens)
        ELSE IF state \in Quotes THEN
            IF nextchar = state
            THEN shlex_read(s, i + 1, "a", escapedstate, token, TRUE, tokens)
            ELSE IF nextchar = Backslash /\ state = DoubleQuote
            THEN shlex_read(s, i + 1, Backslash, state, token, TRUE, tokens)
            ELSE shlex_read(s, i + 1, state, escapedstate, Append(token, nextchar), TRUE,
                            tokens)
        ELSE IF state = Backslash THEN
            IF escapedstate \in Quotes /\ nextchar # Backslash /\ nextchar # escapedstate
            THEN shlex_read(s, i + 1, escapedstate, escapedstate,
                            token \o <<Backslash, nextchar>>, quoted, tokens)
            ELSE shlex_read(s, i + 1, escapedstate, escapedstate, Append(token, nextchar),
                            quoted, tokens)
        ELSE \* state = "a"
            IF nextchar = Space
            THEN IF token # <<>> \/ quoted
                 THEN shlex_read(s, i + 1, " ", escapedstate, <<>>, FALSE,
                                 Append(tokens, token))
                 ELSE shlex_read(s, i + 1, " ", escapedstate, <<>>, FALSE, tokens)
            ELSE IF nextchar \in Quotes
            THEN shlex_read(s, i + 1, nextchar, escapedstate, token, quoted, tokens)
            ELSE IF nextchar = Backslash
            THEN shlex_read(s, i + 1, Backslash, "a", token, quoted, tokens)
            ELSE shlex_read(s, i + 1, "a", escapedstate, Append(token, nextchar), quoted,
                            tokens)

shlex_split(s) == shlex_read(s, 1, " ", " ", <<>>, FALSE, <<>>)

----------------------------------------------------------------------------
(* InteractiveCLI *)

\* What the collaborators of the shell do with a dispatched command: the argument
\* grammar of the subcommand (parse_args), the command handler (func) and the shell
\* that runs the pipe target (subprocess.run).
ParseOutcomes == {"func", "no_func", "SystemExit"}
HandlerOutcomes == {"returns", "raises", "SystemExit", "KeyboardInterrupt"}
SubprocessOutcomes == {"ran", "raises"}
Outcomes == [parse : ParseOutcomes, handler : HandlerOutcomes, subprocess : SubprocessOutcomes]

\* what a handler writes to sys.stdout and sys.stderr before it ends
HandlerStdout == "stdout of the handler"
HandlerStderr == "stderr of the handler"

\* One thing the shell does: a message printed, a handler called, a command run.
ShellEvent(e) == [e |-> e, cmd |-> <<>>, args |-> <<>>, input |-> <<>>]

\* How a method ends: it returns a value, or raises.
Returns(value, out) == [kind |-> "return", value |-> value, captured |-> <<>>, out |-> out]
Raises(exception, out) == [kind |-> "raise", value |-> exception, captured |-> <<>>, out |-> out]

\* InteractiveCLI.__init__
InteractiveCLI__init__ ==
    /\ _is_running = FALSE
    /\ repl = "returned"
    /\ user_input = <<>>
    /\ should_exit = Returns(None, <<>>)
    /\ output = <<>>

\* parser.error(message) in interactive mode: the message is printed, the process goes on
parser_error(command) == [ShellEvent("parser.error") EXCEPT !.cmd = strip(command)]

\* the handler ends by raising
Raised(exception) == [ShellEvent("raise") EXCEPT !.cmd = <<exception>>]

\* subparser_args.func(subparser_args), lines 140-143 and 231-238: the handler is
\* called, or there is none to call
CallHandler(command_parts, o, piped) ==
    LET called == [ShellEvent("func") EXCEPT !.cmd = command_parts[1],
                                             !.args = Tail(command_parts)]
    IN  IF o.parse = "no_func"
        THEN IF Tail(command_parts) = <<>>
             THEN Raises("AttributeError", <<>>)
             ELSE IF piped THEN Returns("", <<>>)
             ELSE Returns("False", <<ShellEvent("no_function")>>)
        ELSE IF o.handler = "returns" THEN Returns("False", <<called>>)
        ELSE IF o.handler = "raises" THEN Raises("Exception", <<called, Raised("Exception")>>)
        ELSE IF o.handler = "SystemExit"
        THEN Raises("SystemExit", <<called, Raised("SystemExit")>>)
        ELSE Raises("KeyboardInterrupt", <<called, Raised("KeyboardInterrupt")>>)

\* the built-ins and the empty line
IsBuiltin(command) ==
    \/ command \in INTERACTIVE_QUIT_COMMANDS
    \/ command \in INTERACTIVE_HELP_COMMANDS
    \/ command \in INTERACTIVE_VERSION_COMMANDS
    \/ strip(command) = <<"fab">>
    \/ strip(command) = <<>>

\* an _execute_cli_command that restores the streams after the handler has returned,
\* without a finally
_execute_cli_command_without_finally(command, o) ==
    LET split == shlex_split(strip(command))
        command_parts == split.parts
        redirect == <<ShellEvent("redirect")>>
        restore == <<ShellEvent("restore")>>
    IN  IF split.err # None THEN Raises("ValueError", <<>>)
        ELSE IF IsBuiltin(command) THEN Returns(None, <<>>)
        ELSE IF command_parts = <<>> THEN Returns("", <<>>)
        ELSE IF command_parts[1] \in SubparserChoices
        THEN IF o.parse = "SystemExit" THEN Returns("", <<ShellEvent("parse_args")>>)
             ELSE LET h == CallHandler(command_parts, o, TRUE)
                  IN  IF h.kind = "return"
                      THEN [Returns("", redirect \o h.out \o restore) EXCEPT
                                !.captured = IF h.out = <<>> THEN <<>>
                                             ELSE <<HandlerStdout, HandlerStderr>>]
                      ELSE IF h.value = "SystemExit" THEN Returns("", redirect \o h.out)
                      ELSE Raises(h.value, redirect \o h.out)
        ELSE Returns("", <<parser_error(command)>>)

_execute_cli_command(command, o) ==
    LET split == shlex_split(strip(command))
        command_parts == split.parts
        redirect == <<ShellEvent("redirect")>>
        restore == <<ShellEvent("restore")>>
    IN  IF split.err # None THEN Raises("ValueError", <<>>)
        ELSE IF IsBuiltin(command) THEN Returns(None, <<>>)
        ELSE IF command_parts = <<>> THEN Returns("", <<>>)
        ELSE IF command_parts[1] \in SubparserChoices
        THEN IF o.parse = "SystemExit" THEN Returns("", <<ShellEvent("parse_args")>>)
             ELSE LET h == CallHandler(command_parts, o, TRUE)
                      out == redirect \o h.out \o restore
                  IN  IF h.kind = "return"
                      THEN [Returns("", out) EXCEPT
                                !.captured = IF h.out = <<>> THEN <<>>
                                             ELSE <<HandlerStdout, HandlerStderr>>]
                      ELSE IF h.value = "SystemExit" THEN Returns("", out)
                      ELSE Raises(h.value, out)
        ELSE Returns("", <<parser_error(command)>>)

\* a _pipe_to_shell that runs the command without the captured output as its input
_pipe_to_shell_without_input(input_data, shell_command, o) ==
    LET run == [ShellEvent("subprocess.run") EXCEPT !.cmd = shell_command]
    IN  IF o.subprocess = "ran"
        THEN <<run, ShellEvent("print_stdout"), ShellEvent("print_stderr")>>
        ELSE <<run, ShellEvent("error_running_pipe_command")>>

_pipe_to_shell(input_data, shell_command, o) ==
    LET run == [ShellEvent("subprocess.run") EXCEPT !.cmd = shell_command,
                                                    !.input = input_data]
    IN  IF o.subprocess = "ran"
        THEN <<run, ShellEvent("print_stdout"), ShellEvent("print_stderr")>>
        ELSE <<run, ShellEvent("error_running_pipe_command")>>

\* handle_command from line 194 on: the line is not split at a pipe
Dispatch(command, o) ==
    LET split == shlex_split(strip(command))
        command_parts == split.parts
    IN  IF split.err # None THEN Raises("ValueError", <<>>)
        ELSE IF command \in INTERACTIVE_QUIT_COMMANDS
        THEN Returns("True", <<ShellEvent("exit_message")>>)
        ELSE IF command \in INTERACTIVE_HELP_COMMANDS
        THEN Returns("False", <<ShellEvent("display_help")>>)
        ELSE IF command \in INTERACTIVE_VERSION_COMMANDS
        THEN Returns("False", <<ShellEvent("print_version")>>)
        ELSE IF strip(command) = <<"fab">>
        THEN Returns("False", <<ShellEvent("fab_prefix_hint")>>)
        ELSE IF strip(command) = <<>> THEN Returns("False", <<>>)
        ELSE IF command_parts = <<>> THEN Returns("False", <<>>)
        ELSE IF command_parts[1] \in SubparserChoices
        THEN IF o.parse = "SystemExit" THEN Returns(None, <<ShellEvent("parse_args")>>)
             ELSE LET h == CallHandler(command_parts, o, FALSE)
                  IN  IF h.kind = "raise" /\ h.value = "SystemExit"
                      THEN Returns(None, h.out)
                      ELSE h
        ELSE Returns("False", <<parser_error(command)>>)

\* a handle_command that pipes whatever _execute_cli_command returned, None included
handle_command_piping_builtins(command, o) ==
    LET cli_cmd == _split_pipe(command)[1]
        shell_cmd == _split_pipe(command)[2]
        executed == _execute_cli_command(cli_cmd, o)
    IN  IF _has_pipe(command) /\ cli_cmd # <<>> /\ shell_cmd # <<>>
        THEN IF executed.kind = "raise" THEN executed
             ELSE Returns("False",
                          executed.out \o _pipe_to_shell(executed.captured, shell_cmd, o))
        ELSE Dispatch(command, o)

RECURSIVE handle_command(_, _)
handle_command(command, o) ==
    LET cli_cmd == _split_pipe(command)[1]
        shell_cmd == _split_pipe(command)[2]
        executed == _execute_cli_command(cli_cmd, o)
    IN  IF _has_pipe(command) /\ cli_cmd # <<>> /\ shell_cmd # <<>>
        THEN IF executed.kind = "raise" THEN executed
             ELSE IF executed.value # None
             THEN Returns("False",
                          executed.out \o _pipe_to_shell(executed.captured, shell_cmd, o))
             ELSE handle_command(cli_cmd, o)
        ELSE Dispatch(command, o)

----------------------------------------------------------------------------
(* Actions *)

\* the tenant_id and client_id arguments: an id or None
TenantIds == Tenants \cup {None}
ClientIds == Clients \cup {None}

Call(op) ==
    [op |-> op, mode |-> None, tenant_id |-> None, client_id |-> None, password |-> None,
     cert_path |-> None, client_assertion |-> None, scope |-> None,
     interactive_renew |-> FALSE]

\* the state an operation leaves
Commit(m, c) ==
    /\ auth_info' = m.info
    /\ auth_file' = m.file
    /\ credential' = m.cred
    /\ cache_file' = m.cache
    /\ config' = m.cfg
    /\ aad_public_key' = m.key
    /\ events' = m.ev
    /\ result' = [err |-> m.err, ret |-> m.ret]
    /\ call' = c
    /\ UNCHANGED <<shell_vars, exit_status>>

\* FabAuth() raised in __init__: the process has no FabAuth object to call
Constructed == ~(call.op = "__init__" /\ result.err # NoError)

Init(files, envs) ==
    \E f \in files, env \in envs, c \in BOOLEAN :
        LET m == __init__([info |-> EmptyRec, file |-> f, cred |-> NoCredential,
                           cache |-> c, cfg |-> DefaultConfig, key |-> None, ev |-> <<>>,
                           err |-> NoError, ret |-> NoToken], env)
        IN  /\ auth_info = m.info
            /\ auth_file = m.file
            /\ credential = m.cred
            /\ cache_file = m.cache
            /\ config = m.cfg
            /\ aad_public_key = m.key
            /\ events = m.ev
            /\ result = [err |-> m.err, ret |-> m.ret]
            /\ call = Call("__init__")
            /\ environ = env
            /\ InteractiveCLI__init__
            /\ exit_status = <<>>

\* the process ends and a new one constructs FabAuth
Restart(envs) ==
    \E env \in envs :
        /\ Commit(__init__(Machine, env), Call("__init__"))
        /\ environ' = env

Logout ==
    /\ Constructed
    /\ Commit(logout(Machine), Call("logout"))
    /\ UNCHANGED environ

SetTenant ==
    /\ Constructed
    /\ \E tenant_id \in TenantIds :
           Commit(set_tenant(Machine, tenant_id),
                  [Call("set_tenant") EXCEPT !.tenant_id = tenant_id])
    /\ UNCHANGED environ

SetAccessMode(modes, tenant_ids) ==
    /\ Constructed
    /\ \E mode \in modes, tenant_id \in tenant_ids :
           Commit(set_access_mode(Machine, mode, tenant_id),
                  [Call("set_access_mode") EXCEPT !.mode = mode, !.tenant_id = tenant_id])
    /\ UNCHANGED environ

SetSpn(passwords, cert_paths, client_assertions) ==
    /\ Constructed
    /\ \E client_id \in Clients, password \in passwords, cert_path \in cert_paths,
          client_assertion \in client_assertions :
           Commit(set_spn(Machine, client_id, password, cert_path, client_assertion),
                  [Call("set_spn") EXCEPT !.client_id = client_id, !.password = password,
                       !.cert_path = cert_path, !.client_assertion = client_assertion])
    /\ UNCHANGED environ

SetManagedIdentity ==
    /\ Constructed
    /\ \E client_id \in ClientIds :
           Commit(set_managed_identity(Machine, client_id),
                  [Call("set_managed_identity") EXCEPT !.client_id = client_id])
    /\ UNCHANGED environ

GetAccessToken(scopes, renews, outcomes) ==
    /\ Constructed
    /\ \E scope \in scopes, interactive_renew \in renews, p \in outcomes :
           Commit(get_access_token(Machine, environ, scope, interactive_renew, p),
                  [Call("get_access_token") EXCEPT !.scope = scope,
                       !.interactive_renew = interactive_renew])
    /\ UNCHANGED environ

GetTokenClaims(scopes, outcomes) ==
    /\ Constructed
    /\ \E scope \in scopes, p \in outcomes :
           Commit(get_token_claims(Machine, environ, scope, p),
                  [Call("get_token_claims") EXCEPT !.scope = scope])
    /\ UNCHANGED environ

\* `fab config set`: an option is given a value
CustomKeys(cfg) == {k \in DOMAIN cfg : cfg[k] = CustomValue}
ConfigSet ==
    /\ Constructed
    /\ \E key \in ConfigKeys : \E value \in {CustomValue, DefaultConfig[key]} :
           /\ Cardinality(CustomKeys(set_config(config, key, value))) <= MaxCustom
           /\ Commit([Machine EXCEPT !.cfg = set_config(@, key, value)], Call("config_set"))
    /\ UNCHANGED environ

\* cache.bin is written by the token cache of an earlier version or another tool
CacheFileWritten ==
    /\ ~cache_file
    /\ Commit([Machine EXCEPT !.cache = TRUE], Call("cache_file_written"))
    /\ UNCHANGED environ

----------------------------------------------------------------------------
(* Spec: the identity state machine.  Every operation of FabAuth, in processes without *)
(* bearer-token overrides; the identity provider signs with one key.                    *)

SpecEnvs == {NoEnv}
SpecScopes == {SCOPE_FABRIC_DEFAULT}
SpecOutcomes == ProviderOutcomes({"key1"})
SpecModes == AUTH_KEYS_IDENTITY_TYPE \cup {"spn", None}
SpecPasswords == {None, ClientSecret, CertPassword}
SpecCertPaths == {None, PlainCert, EncCert}
SpecClientAssertions == {None, FederatedToken}

Next ==
    \/ Restart(SpecEnvs)
    \/ Logout
    \/ SetTenant
    \/ SetAccessMode(SpecModes, TenantIds)
    \/ SetSpn(SpecPasswords, SpecCertPaths, SpecClientAssertions)
    \/ SetManagedIdentity
    \/ GetAccessToken(SpecScopes, BOOLEAN, SpecOutcomes)
    \/ GetTokenClaims(SpecScopes, SpecOutcomes)
    \/ CacheFileWritten

Spec == Init(InitialFiles, SpecEnvs) /\ [][Next]_vars

----------------------------------------------------------------------------
(* SpecConfig: the operations that change the identity, with the configuration       *)
(* options being set between them.  A service principal logs in with a client secret, *)
(* and the identity provider answers from its cache.                                  *)

ConfigOutcomes ==
    {p \in SpecOutcomes : p.outcome = "cached" /\ p.tid = None /\ p.jwks = KeyIds}

ConfigModes == AUTH_KEYS_IDENTITY_TYPE \cup {"spn"}
ConfigTenantIds == {None, "tenant1"}

NextConfig ==
    \/ Restart({NoEnv})
    \/ Logout
    \/ SetAccessMode(ConfigModes, ConfigTenantIds)
    \/ SetSpn({ClientSecret}, {None}, {None})
    \/ SetManagedIdentity
    \/ GetAccessToken(SpecScopes, {TRUE}, ConfigOutcomes)
    \/ ConfigSet
    \/ CacheFileWritten

SpecConfig == Init({AbsentFile}, {NoEnv}) /\ [][NextConfig]_vars

----------------------------------------------------------------------------
(* SpecStartup and SpecTokens: processes started under the combinations of the     *)
(* FAB_* variables, and the token calls they make.  Nothing but start-up and       *)
(* get_access_token changes the identity, so that what a process holds is what    *)
(* its environment gave it.                                                        *)

\* the value a variable of os.environ has when it is set
EnvValue(var) ==
    CASE var = "FAB_TENANT_ID" -> "tenant1"
      [] var = "FAB_SPN_CLIENT_ID" -> "client1"
      [] var = "FAB_SPN_CLIENT_SECRET" -> ClientSecret
      [] var = "FAB_SPN_CERT_PATH" -> PlainCert
      [] var = "FAB_SPN_FEDERATED_TOKEN" -> FederatedToken
      [] var = "FAB_TOKEN" -> EnvToken(FABRIC_TOKEN_AUDIENCE)
      [] var = "FAB_TOKEN_ONELAKE" -> EnvToken(ONELAKE_TOKEN_AUDIENCE)
      [] var = "FAB_TOKEN_AZURE" -> EnvToken(AZURE_TOKEN_AUDIENCE)
EnvWith(names) == [var \in names |-> EnvValue(var)]

IdentityVars ==
    {"FAB_TENANT_ID", "FAB_SPN_CLIENT_ID", "FAB_SPN_CLIENT_SECRET", "FAB_SPN_CERT_PATH",
     "FAB_SPN_FEDERATED_TOKEN"}
CredentialVars == {"FAB_SPN_CLIENT_SECRET", "FAB_SPN_CERT_PATH", "FAB_SPN_FEDERATED_TOKEN"}
TokenVars == {"FAB_TOKEN", "FAB_TOKEN_ONELAKE", "FAB_TOKEN_AZURE"}
\* FAB_MANAGED_IDENTITY after lower()
ManagedIdentityFlags == {"true", "1", "false"}

\* every presence combination of the identity variables, without and with the flag
IdentityEnvs == {EnvWith(names) : names \in SUBSET IdentityVars}
StartupEnvs ==
    IdentityEnvs
        \cup {env @@ ("FAB_MANAGED_IDENTITY" :> flag) :
                  env \in IdentityEnvs, flag \in ManagedIdentityFlags}
\* every presence combination of the bearer tokens, alone, beside a service principal
\* and beside a managed identity
TokenEnvs ==
    {EnvWith(names) @@ env :
         names \in SUBSET TokenVars, env \in {NoEnv, SpnEnv, ManagedIdentityEnv}}

\* SpecStartup: the identity variables; a process asks for one token
StartupOutcomes == {p \in SpecOutcomes : p.tid = None /\ p.jwks = KeyIds /\ p.outcome # "cached"}

NextStartup ==
    \/ Restart(StartupEnvs)
    \/ GetAccessToken(SpecScopes, {TRUE}, StartupOutcomes)

SpecStartup == Init(InitialFiles, StartupEnvs) /\ [][NextStartup]_vars

\* SpecTokens: the bearer tokens; a process asks for tokens of every scope
TokenOutcomes == {p \in SpecOutcomes : p.tid = None}

NextTokens ==
    \/ Restart(TokenEnvs)
    \/ GetAccessToken(Scopes, BOOLEAN, TokenOutcomes)
    \/ GetTokenClaims(Scopes, TokenOutcomes)

SpecTokens == Init(InitialFiles, TokenEnvs) /\ [][NextTokens]_vars

----------------------------------------------------------------------------
(* SpecShell: the read-eval loop of the interactive shell.  start_interactive is     *)
(* called, and each turn of its loop reads a line and hands it to handle_command;     *)
(* the argument grammar, the command handlers and the pipe target answer in every way *)
(* they can.  The shell makes no FabAuth call of its own.                             *)

\* handle_command has not been called on the line yet
NotHandled == [kind |-> "none", value |-> None, captured |-> <<>>, out |-> <<>>]

\* start_interactive is called: lines 249-257
\* a start_interactive that does not look at the running flag
StartInteractiveUnguarded ==
    /\ exit_status = <<>>
    /\ _is_running' = TRUE
    /\ repl' = "loop"
    /\ output' = <<ShellEvent("welcome")>>
    /\ UNCHANGED <<user_input, should_exit>>
    /\ UNCHANGED <<auth_vars, exit_status>>

StartInteractive ==
    /\ exit_status = <<>>
    /\ IF _is_running
       THEN /\ output' = <<ShellEvent("already_running")>>
            /\ UNCHANGED <<_is_running, repl, user_input, should_exit>>
       ELSE /\ _is_running' = TRUE
            /\ repl' = "loop"
            /\ output' = <<ShellEvent("welcome")>>
            /\ UNCHANGED <<user_input, should_exit>>
    /\ UNCHANGED <<auth_vars, exit_status>>

\* the top of the loop: the prompt is shown and self.session.prompt waits for a line,
\* lines 261-273; the turn before is over
ShowPrompt ==
    /\ repl = "loop"
    /\ repl' = "prompt"
    /\ user_input' = <<>>
    /\ should_exit' = NotHandled
    /\ output' = <<ShellEvent("prompt")>>
    /\ UNCHANGED _is_running
    /\ UNCHANGED <<auth_vars, exit_status>>

\* self.session.prompt returns a line: lines 268-273
Prompt(lines) ==
    /\ repl = "prompt"
    /\ \E line \in lines : user_input' = line
    /\ repl' = "handle_command"
    /\ should_exit' = NotHandled
    /\ output' = <<>>
    /\ UNCHANGED _is_running
    /\ UNCHANGED <<auth_vars, exit_status>>

\* a Ctrl-C at the prompt handled as the outer handler of lines 287-288 would: the
\* farewell is printed and the session ends
PromptKeyboardInterruptEndingSession ==
    /\ repl = "prompt"
    /\ user_input' = <<"KeyboardInterrupt">>
    /\ should_exit' = NotHandled
    /\ output' = <<ShellEvent("exit_message")>>
    /\ repl' = "returned"
    /\ _is_running' = FALSE
    /\ UNCHANGED <<auth_vars, exit_status>>

\* Ctrl-C while self.session.prompt waits: lines 278-281
PromptKeyboardInterrupt ==
    /\ repl = "prompt"
    /\ user_input' = <<"KeyboardInterrupt">>
    /\ should_exit' = NotHandled
    /\ output' = <<ShellEvent("use_quit_or_exit")>>
    /\ repl' = "loop"
    /\ UNCHANGED _is_running
    /\ UNCHANGED <<auth_vars, exit_status>>

\* end of input while self.session.prompt waits: EOFError is an Exception, and the
\* handler of lines 282-285 is the first that matches it; then the finally of line 294
PromptEOFError ==
    /\ repl = "prompt"
    /\ user_input' = <<"EOFError">>
    /\ should_exit' = NotHandled
    /\ output' = <<ShellEvent("error_in_interactive_session")>>
    /\ repl' = "returned"
    /\ _is_running' = FALSE
    /\ UNCHANGED <<auth_vars, exit_status>>

\* handle_command(user_input) and what the loop does with its result: lines 274-285, 294
HandleCommand(outcomes) ==
    /\ repl = "handle_command"
    /\ \E o \in outcomes :
           LET r == handle_command(user_input, o)
           IN  /\ should_exit' = r
               /\ IF r.kind = "return"
                  THEN /\ output' = r.out
                       /\ IF r.value = "True"
                          THEN repl' = "returned" /\ _is_running' = FALSE
                          ELSE repl' = "loop" /\ UNCHANGED _is_running
                  ELSE IF r.value = "KeyboardInterrupt"
                  THEN /\ output' = Append(r.out, ShellEvent("use_quit_or_exit"))
                       /\ repl' = "loop"
                       /\ UNCHANGED _is_running
                  ELSE /\ output' = Append(r.out, ShellEvent("error_in_interactive_session"))
                       /\ repl' = "returned"
                       /\ _is_running' = FALSE
    /\ UNCHANGED user_input
    /\ UNCHANGED <<auth_vars, exit_status>>

NextShell ==
    \/ StartInteractive
    \/ ShowPrompt
    \/ Prompt(Lines)
    \/ PromptKeyboardInterrupt
    \/ PromptEOFError
    \/ HandleCommand(Outcomes)

SpecShell == Init({AbsentFile}, {NoEnv}) /\ [][NextShell]_vars

\* The loop is sequential code: from its top it goes on to show the prompt.
SpecShellLive == SpecShell /\ WF_vars(ShowPrompt)

----------------------------------------------------------------------------
(* SpecPipe: the two pipe scanners of the shell as functions of the line.  A line is *)
(* drawn from the lines of up to MaxPipeLen segments and both scanners are applied   *)
(* to it.                                                                            *)

MaxPipeLen == 5

PipeSegments == Specials \cup {"zz"}
PipeLines == UNION {[1..n -> PipeSegments] : n \in 0..MaxPipeLen}

\* Python's bool as text
Bool(b) == IF b THEN "True" ELSE "False"

\* the line the scanners are called with
TypeLine(lines) ==
    /\ repl = "returned"
    /\ user_input = <<>>
    /\ output = <<>>
    /\ \E line \in lines : user_input' = line
    /\ UNCHANGED <<_is_running, repl, should_exit, output>>
    /\ UNCHANGED <<auth_vars, exit_status>>

\* self._has_pipe(command) and self._split_pipe(command): lines 183-184
ScanLine ==
    /\ repl = "returned"
    /\ output = <<>>
    /\ output' = <<[ShellEvent("_has_pipe") EXCEPT !.input = <<Bool(_has_pipe(user_input))>>],
                   [ShellEvent("_split_pipe") EXCEPT !.cmd = _split_pipe(user_input)[1],
                                                     !.args = _split_pipe(user_input)[2]]>>
    /\ UNCHANGED <<_is_running, repl, user_input, should_exit>>
    /\ UNCHANGED <<auth_vars, exit_status>>

NextPipe ==
    \/ TypeLine(PipeLines)
    \/ ScanLine

SpecPipe == Init({AbsentFile}, {NoEnv}) /\ [][NextPipe]_vars

----------------------------------------------------------------------------
(* Signals *)

\* the numbers of the signals main() installs _signal_handler for
SIGHUP == 1
SIGINT == 2
SIGQUIT == 3
SIGTERM == 15
Signals == {SIGHUP, SIGINT, SIGQUIT, SIGTERM}

signal_names ==
    [signum \in Signals |->
        CASE signum = SIGINT -> "SIGINT"
          [] signum = SIGTERM -> "SIGTERM"
          [] signum = SIGHUP -> "SIGHUP"
          [] signum = SIGQUIT -> "SIGQUIT"]

\* _signal_handler(signum, frame): the message on stderr, then sys.exit(128 + signum),
\* which raises SystemExit where the signal interrupted the program
_signal_handler(signum) ==
    [out |-> <<[ShellEvent("signal_received") EXCEPT !.cmd = <<signal_names[signum]>>]>>,
     code |-> 128 + signum]

\* where in handle_command a signal can interrupt: inside the try of the dispatch,
\* while parse_args or the handler runs, or anywhere else
SignalPoints == {"parse_args", "func", "elsewhere"}

\* the outcomes of a dispatch that a SystemExit raised at the point interrupts
InterruptedAt(point) ==
    {o \in Outcomes : IF point = "parse_args" THEN o.parse = "SystemExit"
                      ELSE o.parse = "func" /\ o.handler = "SystemExit"}

\* whether the dispatch of the line gets to the point: parse_args has raised, or
\* the handler has
Reaches(out, point) ==
    \E n \in 1..Len(out) :
        IF point = "parse_args" THEN out[n].e = "parse_args"
        ELSE out[n] = Raised("SystemExit")

\* the output of a dispatch that the signal interrupted: the message of the handler
\* comes before the SystemExit
RECURSIVE Interrupted(_, _)
Interrupted(out, message) ==
    IF out = <<>> THEN <<>>
    ELSE IF out[1].e = "parse_args" \/ out[1] = Raised("SystemExit")
    THEN message \o out
    ELSE <<out[1]>> \o Interrupted(Tail(out), message)

\* SystemExit leaves the program: no handler of start_interactive (lines 278-292)
\* or of main (lines 141-144) catches it, the finally of line 294 clears the flag
SysExit(h) ==
    /\ exit_status' = <<h.code>>
    /\ output' = h.out
    /\ repl' = "returned"
    /\ _is_running' = FALSE
    /\ UNCHANGED <<user_input, should_exit>>

\* a signal is delivered to the running process
Signal(signals, points) ==
    /\ exit_status = <<>>
    /\ \E signum \in signals, point \in points :
           LET h == _signal_handler(signum)
           IN  IF repl = "handle_command" /\ point # "elsewhere"
               THEN \E o \in InterruptedAt(point) :
                        LET r == handle_command(user_input, o)
                        IN  /\ Reaches(r.out, point)
                            /\ should_exit' = r
                            /\ output' = Interrupted(r.out, h.out)
                            /\ IF r.kind = "return" /\ r.value # "True"
                               THEN repl' = "loop" /\ UNCHANGED _is_running
                               ELSE repl' = "returned" /\ _is_running' = FALSE
                            /\ UNCHANGED <<user_input, exit_status>>
               ELSE SysExit(h)
    /\ UNCHANGED auth_vars

NextSignal ==
    \/ StartInteractive
    \/ ShowPrompt
    \/ Prompt(Lines)
    \/ PromptKeyboardInterrupt
    \/ PromptEOFError
    \/ HandleCommand(Outcomes)
    \/ Signal(Signals, SignalPoints)

SpecSignal == Init({AbsentFile}, {NoEnv}) /\ [][NextSignal]_vars

----------------------------------------------------------------------------
(* build_item_payload *)

\* The longest list of parts of a definition.
MaxParts == 2

\* the item types of the model: the two with a case of their own, one of the types
\* whose definition is passed on as it is, and one without definition payloads
NOTEBOOK == "Notebook"
SPARK_JOB_DEFINITION == "SparkJobDefinition"
REPORT == "Report"
LAKEHOUSE == "Lakehouse"
ItemTypes == {NOTEBOOK, SPARK_JOB_DEFINITION, REPORT, LAKEHOUSE}
DefinitionItemTypes == {REPORT}

\* Item(name, id, parent, item_type), with the parent a workspace or a folder
Items == [name : {"notebook_name"}, parent_type : {"Workspace", "Folder"},
          parent_id : {"parent_id"}, item_type : ItemTypes]

\* Item.folder_id
folder_id(item) == IF item.parent_type = "Folder" THEN item.parent_id ELSE None

\* the parts of a definition
Parts == {[path |-> "test.py", payload |-> "base64data", payloadType |-> "InlineBase64"],
          [path |-> "test.ipynb", payload |-> "base64data", payloadType |-> "InlineBase64"]}
PartLists == UNION {[1..n -> Parts] : n \in 0..MaxParts}

\* the definition argument: <<>> is None, <<d>> is the dict d, which has its parts
\* and may have a format of its own
Definitions ==
    {<<>>} \cup {<<[parts |-> ps]>> : ps \in PartLists}
           \cup {<<[format |-> "fabricGitSource", parts |-> ps]>> : ps \in PartLists}

Descriptions == {"Imported from fab", "Created by fab"}
InputFormats == {None, ".py", ".ipynb", ".txt"}

\* build_item_payload(item, definition, description, input_format): the payload, or
\* the error raised
build_item_payload(item, definition, description, input_format) ==
    LET base_payload == [type |-> item.item_type,
                         description |-> description,
                         folderId |-> folder_id(item),
                         displayName |-> item.name]
        item_type == item.item_type
        Ok(payload) == [err |-> NoError, ret |-> payload]
    IN  IF definition = <<>> THEN Ok(base_payload)
        ELSE IF item_type = SPARK_JOB_DEFINITION
        THEN Ok(base_payload @@ [definition |-> [format |-> "SparkJobDefinitionV1",
                                                 parts |-> definition[1].parts]])
        ELSE IF item_type = NOTEBOOK
        THEN IF input_format = ".py"
             THEN Ok(base_payload @@ [definition |-> [parts |-> definition[1].parts]])
             ELSE Ok(base_payload @@ [definition |-> [format |-> "ipynb",
                                                      parts |-> definition[1].parts]])
        ELSE IF item_type \in DefinitionItemTypes
        THEN Ok(base_payload @@ [definition |-> definition[1]])
        ELSE [err |-> FabricCLIError("item_type_doesnt_support_definition_payload",
                                     "ERROR_UNSUPPORTED_COMMAND"),
              ret |-> EmptyRec]

\* a call of build_item_payload
BuildItemPayload(items, definitions, descriptions, input_formats) ==
    /\ \E item \in items, definition \in definitions, description \in descriptions,
          input_format \in input_formats :
           /\ call' = [op |-> "build_item_payload", item |-> item,
                       definition |-> definition, description |-> description,
                       input_format |-> input_format]
           /\ result' = build_item_payload(item, definition, description, input_format)
    /\ UNCHANGED <<auth_info, auth_file, credential, cache_file, config, aad_public_key,
                   environ, events>>
    /\ UNCHANGED <<shell_vars, exit_status>>

NextPayload == BuildItemPayload(Items, Definitions, Descriptions, InputFormats)

SpecPayload == Init({AbsentFile}, {NoEnv}) /\ [][NextPayload]_vars

----------------------------------------------------------------------------
(* SpecKeys: the cache slot of the signing key.  Tokens of every key id, signer and *)
(* audience are decoded against every key set the provider may publish, and logout  *)
(* is called between the decodes.                                                    *)

Audiences == {FABRIC_TOKEN_AUDIENCE, ONELAKE_TOKEN_AUDIENCE, AZURE_TOKEN_AUDIENCE}

\* the tokens handed to _decode_jwt_token: a token whose signer is not the key its
\* header names has a bad signature
JwtTokens == [kid : KeyIds, signer : KeyIds, aud : Audiences, tid : {None}]

\* the key sets the provider publishes; a fetch that fails finds no key either
KeySets == SUBSET KeyIds

\* self._decode_jwt_token(token, expected_audience)
DecodeJwtToken(tokens, audiences, keysets) ==
    /\ Constructed
    /\ \E token \in tokens, expected_audience \in audiences, jwks \in keysets :
           /\ Commit(_decode_jwt_token(Machine, token, expected_audience, jwks),
                     [op |-> "_decode_jwt_token", token |-> token,
                      expected_audience |-> expected_audience, jwks |-> jwks])
    /\ UNCHANGED environ

NextKeys ==
    \/ DecodeJwtToken(JwtTokens, Audiences \cup {None}, KeySets)
    \/ Logout

SpecKeys == Init({AbsentFile}, {NoEnv}) /\ [][NextKeys]_vars

----------------------------------------------------------------------------
(* SpecLoad: _load_auth on the files it can find.  auth.json is absent, empty, or a *)
(* record written by this or an earlier version of the program, with or without the *)
(* legacy keys; it is loaded, and loaded again.                                      *)

\* the records an auth.json may hold: every set of the legacy and the current keys
FileKeys == {FAB_AUTH_MODE, FAB_AUTHORITY, IDENTITY_TYPE, FAB_TENANT_ID, FAB_SPN_CLIENT_ID}
FileValue(key, mode) ==
    CASE key = FAB_AUTH_MODE -> mode
      [] key = FAB_AUTHORITY -> AuthorityUrl
      [] key = IDENTITY_TYPE -> "managed_identity"
      [] key = FAB_TENANT_ID -> "tenant1"
      [] key = FAB_SPN_CLIENT_ID -> "client1"
LoadFiles ==
    {AbsentFile, EmptyFile}
    \cup {[state |-> "json", obj |-> json_dumps([k \in keys |-> FileValue(k, mode)])] :
              keys \in SUBSET FileKeys, mode \in {"user", "service_principal"}}

\* auth.json as another process, of this or an earlier version, leaves it
AuthFileWritten(files) ==
    /\ \E f \in files :
           Commit([Machine EXCEPT !.file = f], Call("auth_file_written"))
    /\ UNCHANGED environ

\* self._load_auth()
LoadAuth ==
    /\ Commit(_load_auth(Machine), Call("_load_auth"))
    /\ UNCHANGED environ

NextLoad ==
    \/ AuthFileWritten(LoadFiles)
    \/ LoadAuth

SpecLoad == Init({AbsentFile}, {NoEnv}) /\ [][NextLoad]_vars

----------------------------------------------------------------------------
(* SpecLogin: processes started with a tenant id and a service principal in their   *)
(* environment, on top of whatever record an earlier login left in auth.json.        *)

\* auth.json as an earlier login left it: with or without a tenant, a client id and
\* an identity type
StoredRecords ==
    {[k \in keys |-> CASE k = FAB_TENANT_ID -> t
                       [] k = FAB_SPN_CLIENT_ID -> c
                       [] k = IDENTITY_TYPE -> i] :
         keys \in SUBSET {FAB_TENANT_ID, FAB_SPN_CLIENT_ID, IDENTITY_TYPE},
         t \in Tenants, c \in Clients, i \in AUTH_KEYS_IDENTITY_TYPE}
LoginFiles == {AbsentFile} \cup {[state |-> "json", obj |-> json_dumps(r)] : r \in StoredRecords}

\* FAB_TENANT_ID and FAB_SPN_CLIENT_ID with a client secret or with the path of a
\* certificate
SpnLoginEnvs ==
    {("FAB_TENANT_ID" :> t) @@ ("FAB_SPN_CLIENT_ID" :> c) @@ form :
         t \in Tenants, c \in Clients,
         form \in {"FAB_SPN_CLIENT_SECRET" :> ClientSecret, "FAB_SPN_CERT_PATH" :> PlainCert}}

\* a value uuid.UUID refuses
NotAGuid == "not-a-guid"

\* the same variables with values the validations of _load_env refuse: an id that is not
\* a GUID, a certificate path without a file or without a certificate extension, no
\* credential variable, two of them, no tenant id
InvalidLoginEnvs ==
    {tenant @@ ("FAB_SPN_CLIENT_ID" :> c) @@ form :
         tenant \in {EmptyRec} \cup {"FAB_TENANT_ID" :> t : t \in Tenants \cup {NotAGuid}},
         c \in Clients \cup {NotAGuid},
         form \in {EmptyRec,
                   "FAB_SPN_CLIENT_SECRET" :> ClientSecret,
                   "FAB_SPN_CERT_PATH" :> PlainCert,
                   "FAB_SPN_CERT_PATH" :> MissingCertPath,
                   "FAB_SPN_CERT_PATH" :> TextCertPath,
                   ("FAB_SPN_CLIENT_SECRET" :> ClientSecret) @@ ("FAB_SPN_CERT_PATH" :> PlainCert)}}
        \ SpnLoginEnvs

LoginEnvs == SpnLoginEnvs \cup InvalidLoginEnvs

NextLogin ==
    \/ Restart(LoginEnvs)
    \/ Logout

SpecLogin == Init(LoginFiles, LoginEnvs) /\ [][NextLogin]_vars

----------------------------------------------------------------------------
(* Properties *)

\* the identity record auth.json holds, and the identity type in it
PersistedRecord == json_load(auth_file.obj)
Persisted(key) ==
    IF key \in DOMAIN auth_file.obj THEN json_loads_value(auth_file.obj[key]) ELSE None
PersistedType == Persisted(IDENTITY_TYPE)
PersistedTenant == Persisted(FAB_TENANT_ID)
PersistedClient == Persisted(FAB_SPN_CLIENT_ID)

\* the positions of the side effects of one kind in a log
EventsOf(evs, e) == {i \in 1..Len(evs) : evs[i].e = e}

\* C1: whenever set_access_mode, set_spn or set_managed_identity writes to auth.json an
\* identity_type B that differs from the identity_type A persisted before the call, the
\* credential handle is already null and the token cache file already deleted at the
\* moment of that write.
C1_ClearedBeforeTypeIsWritten ==
    [][call'.op \in {"set_access_mode", "set_spn", "set_managed_identity"}
        => \A i \in EventsOf(events', "write_auth") :
               (/\ PersistedType # None
                /\ Get(events'[i].info, IDENTITY_TYPE) \notin {None, PersistedType})
               => events'[i].cred = NoCredential /\ ~events'[i].cache]_vars

\* C2: in every state auth.json holds nothing but the tenant id, the identity type and
\* the client id, none of its values is a client secret, a certificate password,
\* certificate material or a federated token, and no record an operation wrote to it on
\* the way held such a value.
Identifiers == {FAB_TENANT_ID, IDENTITY_TYPE, FAB_SPN_CLIENT_ID}
SecretFree(record) == \A k \in DOMAIN record : record[k] \notin SecretValues
C2_NoSecretInAuthFile ==
    /\ DOMAIN auth_file.obj \subseteq Identifiers
    /\ SecretFree(PersistedRecord)
    /\ \A i \in EventsOf(events, "write_auth") : SecretFree(events[i].info)

\* C2 happens: a service principal logged in with a client secret, which the credential
\* handle holds while auth.json holds the client id
C2_Witness ==
    /\ call.op = "set_spn"
    /\ result.err = NoError
    /\ call.password = ClientSecret
    /\ credential.secret = ClientSecret
    /\ PersistedClient = call.client_id

\* C3: after logout the identity record is empty in memory and on disk, the credential
\* handle is null, the token cache file does not exist, the five flags hold their
\* defaults and the capacity and Azure settings are empty, whatever the state before.
C3_LogoutEndsUnauthenticated ==
    call.op = "logout"
        => /\ result.err = NoError
           /\ auth_info = EmptyRec
           /\ auth_file = [state |-> "json", obj |-> EmptyRec]
           /\ credential = NoCredential
           /\ ~cache_file
           /\ \A k \in FlagKeys \cup SettingKeys : config[k] = DefaultConfig[k]

\* C3 happens: logout of a service principal with a live credential and a token cache
\* file, while a setting holds a value of the user's
C3_Witness ==
    /\ call.op = "logout"
    /\ events # <<>>
    /\ events[1].e = "logout"
    /\ Get(events[1].info, IDENTITY_TYPE) = "service_principal"
    /\ events[1].cred # NoCredential
    /\ events[1].cache
    /\ \E i \in EventsOf(events, "config_reset") :
           CustomKeys(events[i].info) \cap SettingKeys # {}

\* C4 as stated: set_spn, set_managed_identity, a set_tenant that does not log out,
\* get_access_token and get_token_claims leave the persisted identity_type as it was.
C4_OnlySetAccessModeChangesType ==
    [][(\/ call'.op \in {"set_spn", "set_managed_identity", "get_access_token",
                         "get_token_claims"}
        \/ call'.op = "set_tenant" /\ EventsOf(events', "logout") = {})
        => PersistedType' = PersistedType]_vars

\* C4, amended: an operation of a constructed FabAuth changes the persisted
\* identity_type only as set_access_mode (to the mode), as set_spn (to
\* service_principal), as set_managed_identity (to managed_identity), or by a logout
\* that removes it: logout itself, or the logout inside set_tenant, which
\* get_access_token and get_token_claims call for a token of another tenant.
C4_WritersOfIdentityType ==
    [][(call'.op # "__init__" /\ PersistedType' # PersistedType)
        => \/ call'.op = "set_access_mode" /\ PersistedType' = call'.mode
           \/ call'.op = "set_spn" /\ PersistedType' = "service_principal"
           \/ call'.op = "set_managed_identity" /\ PersistedType' = "managed_identity"
           \/ /\ call'.op \in {"logout", "set_tenant", "get_access_token", "get_token_claims"}
              /\ EventsOf(events', "logout") # {}
              /\ PersistedType' = None]_vars

\* C4 happens: set_spn wrote service_principal over the record of a user, whose browser
\* credential was still the handle when the record was written
C4_Witness ==
    /\ call.op = "set_spn"
    /\ events # <<>>
    /\ events[1].e = "write_auth"
    /\ events[1].cred.kind = "InteractiveBrowserCredential"
    /\ PersistedType = "service_principal"

\* C5: after a successful set_access_mode(mode, tenant_id) the persisted identity_type is
\* mode; a tenant_id that was given is the persisted tenant; if mode differed from the
\* identity type before, the call began with a logout and ends with a null credential
\* handle, no token cache file and no client id; if neither the mode nor the tenant
\* changed, there was no logout and the credential handle is the one from before.
C5_SetAccessModeSwitches ==
    [][(call'.op = "set_access_mode" /\ result'.err = NoError)
        => /\ PersistedType' = call'.mode
           /\ Get(auth_info', IDENTITY_TYPE) = call'.mode
           /\ Truthy(call'.tenant_id) => PersistedTenant' = call'.tenant_id
           /\ call'.mode # get_identity_type(Machine)
                  => /\ events'[1].e = "logout"
                     /\ credential' = NoCredential
                     /\ ~cache_file'
                     /\ PersistedClient' = None
           /\ (/\ call'.mode = get_identity_type(Machine)
               /\ ~Truthy(call'.tenant_id) \/ call'.tenant_id = get_tenant_id(Machine))
                  => /\ EventsOf(events', "logout") = {}
                     /\ credential' = credential]_vars

\* C5 happens: set_access_mode with a tenant switched away from another identity type
\* that had a live credential and a token cache file
C5_Witness ==
    /\ call.op = "set_access_mode"
    /\ result.err = NoError
    /\ Truthy(call.tenant_id)
    /\ events # <<>>
    /\ events[1].e = "logout"
    /\ Get(events[1].info, IDENTITY_TYPE) \notin {None, call.mode}
    /\ events[1].cred # NoCredential
    /\ events[1].cache

\* C6: set_access_mode with a mode outside the allowed identity types fails with the
\* invalid-access-mode error and changes neither the identity record in memory or on
\* disk, nor the credential handle, the token cache file or the configuration.
C6_InvalidModeChangesNothing ==
    [][(call'.op = "set_access_mode" /\ call'.mode \notin AUTH_KEYS_IDENTITY_TYPE)
        => /\ result'.err = FabricCLIError("invalid_identity_type", "ERROR_INVALID_ACCESS_MODE")
           /\ events' = <<>>
           /\ UNCHANGED <<auth_info, auth_file, credential, cache_file, config>>]_vars

\* C6 happens: an invalid mode was refused while a service principal was logged in, a
\* token cache file existed and an option held a value of the user's
C6_Witness ==
    /\ call.op = "set_access_mode"
    /\ call.mode \notin AUTH_KEYS_IDENTITY_TYPE
    /\ result.err.code = "ERROR_INVALID_ACCESS_MODE"
    /\ PersistedType = "service_principal"
    /\ credential # NoCredential
    /\ cache_file
    /\ CustomKeys(config) # {}

\* the credential forms a set_spn call supplied
SuppliedForms(c) ==
    {f \in {"password", "cert_path", "client_assertion"} : Truthy(c[f])}
SpnMissingCredential ==
    FabricCLIError("spn_auth_missing_credential", "ERROR_AUTHENTICATION_FAILED")

\* C7: set_spn with none of password, cert_path and client_assertion fails with the
\* missing-credential error, whatever the state and the client_id.
C7_NoCredentialFormFails ==
    (call.op = "set_spn" /\ SuppliedForms(call) = {}) => result.err = SpnMissingCredential

\* C7 happens: the call was refused while another identity was logged in
C7_Witness ==
    /\ call.op = "set_spn"
    /\ SuppliedForms(call) = {}
    /\ result.err = SpnMissingCredential
    /\ credential # NoCredential
    /\ PersistedClient \notin {None, call.client_id}

\* the parameters of a set_spn call are valid: a certificate that is named can be read
\* with the password given
SpnParametersValid(c) ==
    Truthy(c.cert_path) => _parse_certificate_ok(c.cert_path, c.password)
SpnPersisted(c) ==
    PersistedType = "service_principal" /\ PersistedClient = c.client_id
FederatedTokenNotSupported ==
    FabricCLIError("federated_token_not_supported", "ERROR_AUTHENTICATION_FAILED")
CertReadFailed == FabricCLIError("cert_read_failed", "ERROR_INVALID_CERTIFICATE")

\* C8 as stated: set_spn with exactly one of password, cert_path and client_assertion,
\* and valid parameters, succeeds, persists service_principal and the client id, and
\* leaves a live service-principal credential as the handle.
C8_ExactlyOneFormSucceeds ==
    (call.op = "set_spn" /\ Cardinality(SuppliedForms(call)) = 1 /\ SpnParametersValid(call))
        => /\ result.err = NoError
           /\ SpnPersisted(call)
           /\ credential.kind \in {"ClientSecretCredential", "CertificateCredential"}
           /\ credential.client = call.client_id

\* C8, amended: set_spn with exactly one form and valid parameters persists
\* service_principal and the client id; with a password or a certificate it succeeds and
\* the handle is a live credential of that client built from the secret or the
\* certificate; with a client_assertion it fails with the federated-token-not-supported
\* error and builds no credential.
C8_SecretOrCertificateSucceeds ==
    (call.op = "set_spn" /\ Cardinality(SuppliedForms(call)) = 1 /\ SpnParametersValid(call))
        => /\ SpnPersisted(call)
           /\ IF Truthy(call.client_assertion)
              THEN /\ result.err = FederatedTokenNotSupported
                   /\ EventsOf(events, "credential_set") = {}
              ELSE /\ result.err = NoError
                   /\ credential.client = call.client_id
                   /\ IF Truthy(call.cert_path)
                      THEN /\ credential.kind = "CertificateCredential"
                           /\ credential.secret = _parse_certificate(call.cert_path)
                      ELSE /\ credential.kind = "ClientSecretCredential"
                           /\ credential.secret = call.password

\* C8 happens: a certificate alone logged a service principal in
C8_Witness ==
    /\ call.op = "set_spn"
    /\ SuppliedForms(call) = {"cert_path"}
    /\ result.err = NoError
    /\ credential.kind = "CertificateCredential"
    /\ SpnPersisted(call)

\* C9 as stated: set_spn with two or more of password, cert_path and client_assertion
\* fails.
C9_TwoFormsFail ==
    (call.op = "set_spn" /\ Cardinality(SuppliedForms(call)) >= 2) => result.err # NoError

\* C9, amended: set_spn refuses only a call with no form.  Of two or more forms it uses
\* the first of cert_path, password, client_assertion: a certificate is read with the
\* password as its password, and the call succeeds with a certificate credential or fails
\* with the invalid-certificate error; without a certificate the password is the client
\* secret and the call succeeds, the client_assertion being ignored.
C9_FirstFormIsUsed ==
    (call.op = "set_spn" /\ Cardinality(SuppliedForms(call)) >= 2)
        => /\ SpnPersisted(call)
           /\ IF Truthy(call.cert_path)
              THEN IF _parse_certificate_ok(call.cert_path, call.password)
                   THEN /\ result.err = NoError
                        /\ credential.kind = "CertificateCredential"
                        /\ credential.secret = _parse_certificate(call.cert_path)
                   ELSE result.err = CertReadFailed
              ELSE /\ result.err = NoError
                   /\ credential.kind = "ClientSecretCredential"
                   /\ credential.secret = call.password

\* C9 happens: all three forms were supplied and the certificate logged in
C9_Witness ==
    /\ call.op = "set_spn"
    /\ SuppliedForms(call) = {"password", "cert_path", "client_assertion"}
    /\ result.err = NoError
    /\ credential.kind = "CertificateCredential"

\* C10: set_spn and set_managed_identity log out when the client id given differs from
\* the client id stored before the call (there being one), and then the logout is the
\* first thing they do: the record is emptied and written, and the new client id and
\* identity type are written with the credential handle null and the token cache file
\* gone.  Otherwise they do not log out.
C10_LogoutOnClientChange ==
    [][(/\ call'.op \in {"set_spn", "set_managed_identity"}
        /\ call'.op = "set_spn" => SuppliedForms(call') # {})
        => LET stored == _get_auth_property(Machine, FAB_SPN_CLIENT_ID)
               writes == EventsOf(events', "write_auth")
           IN  IF stored # None /\ stored # call'.client_id
               THEN /\ events'[1].e = "logout"
                    /\ \E i \in writes : events'[i].info = EmptyRec
                    /\ \A i \in writes :
                           events'[i].info # EmptyRec
                               => /\ events'[i].cred = NoCredential
                                  /\ ~events'[i].cache
                                  /\ DOMAIN events'[i].info = {FAB_SPN_CLIENT_ID, IDENTITY_TYPE}
                                  /\ events'[i].info[FAB_SPN_CLIENT_ID] = call'.client_id
                                  /\ \E j \in writes : j < i /\ events'[j].info = EmptyRec
               ELSE EventsOf(events', "logout") = {}]_vars

\* C10 happens: set_managed_identity with another client id logged a service principal
\* out that had a live credential and a token cache file
C10_Witness ==
    /\ call.op = "set_managed_identity"
    /\ events # <<>>
    /\ events[1].e = "logout"
    /\ Get(events[1].info, IDENTITY_TYPE) = "service_principal"
    /\ Get(events[1].info, FAB_SPN_CLIENT_ID) \notin {None, call.client_id}
    /\ events[1].cred # NoCredential
    /\ events[1].cache

\* C11: set_tenant(t) with t not None logs out first when another tenant id was stored,
\* and then the record in memory and on disk is exactly {tenant id: t} and the credential
\* handle is null; when no tenant id or t itself was stored it does not log out and
\* changes nothing but the tenant id.  set_tenant(None) changes nothing.
C11_SetTenantLogsOutOnChange ==
    [][call'.op = "set_tenant"
        => LET t == call'.tenant_id
               stored == get_tenant_id(Machine)
           IN  IF t = None
               THEN /\ events' = <<>>
                    /\ UNCHANGED <<auth_info, auth_file, credential, cache_file, config>>
               ELSE IF stored # None /\ stored # t
               THEN /\ events'[1].e = "logout"
                    /\ \A i \in EventsOf(events', "write_auth") :
                           events'[i].info # EmptyRec
                               => events'[i].cred = NoCredential /\ ~events'[i].cache
                    /\ auth_info' = (FAB_TENANT_ID :> t)
                    /\ PersistedRecord' = (FAB_TENANT_ID :> t)
                    /\ credential' = NoCredential
               ELSE /\ EventsOf(events', "logout") = {}
                    /\ auth_info' = Update(auth_info, FAB_TENANT_ID :> t)
                    /\ PersistedRecord' = auth_info'
                    /\ UNCHANGED <<credential, cache_file, config>>]_vars

\* C11 happens: set_tenant with another tenant logged out an identity that had a live
\* credential
C11_Witness ==
    /\ call.op = "set_tenant"
    /\ events # <<>>
    /\ events[1].e = "logout"
    /\ Get(events[1].info, FAB_TENANT_ID) \notin {None, call.tenant_id}
    /\ Get(events[1].info, IDENTITY_TYPE) # None
    /\ events[1].cred # NoCredential
    /\ auth_info = (FAB_TENANT_ID :> call.tenant_id)

\* the error get_access_token raises for a service principal without a handle: the
\* re-authentication message of _get_credential inside the access-token error
SpnReauthenticationRequired ==
    [FabricCLIError("access_token_error", "ERROR_AUTHENTICATION_FAILED")
        EXCEPT !.detail = "spn_reauthentication_required"]

\* C12: get_access_token without bearer-token overrides, called while identity_type is
\* service_principal and the credential handle is null, fails with the authentication
\* error that asks for a new login; it builds no credential, requests no token, leaves
\* the handle null and leaves the identity record and auth.json as they are.
C12_SpnWithoutHandleMustLogin ==
    [][(/\ call'.op \in {"get_access_token", "get_token_claims"}
        /\ get_identity_type(Machine) = "service_principal"
        /\ credential = NoCredential
        /\ {"FAB_TOKEN", "FAB_TOKEN_ONELAKE"} \cap DOMAIN environ = {})
        => /\ result'.err = SpnReauthenticationRequired
           /\ result'.ret = NoToken
           /\ events' = <<>>
           /\ credential' = NoCredential
           /\ UNCHANGED <<auth_info, auth_file, cache_file>>]_vars

\* C12 happens: a new process loaded the record of a service principal from auth.json
\* and was asked for a token
C12_Witness ==
    /\ call.op = "get_access_token"
    /\ result.err = SpnReauthenticationRequired
    /\ PersistedType = "service_principal"
    /\ PersistedClient # None
    /\ credential = NoCredential

\* C13: a user identity asked for a token with interactive_renew = False (as
\* get_token_claims does) is never prompted, and a call that fails reports the
\* run-login-first error.
C13_SilentCallNeverPrompts ==
    [][(/\ \/ call'.op = "get_access_token" /\ ~call'.interactive_renew
           \/ call'.op = "get_token_claims"
        /\ get_identity_type(Machine) = "user"
        /\ {"FAB_TOKEN", "FAB_TOKEN_ONELAKE"} \cap DOMAIN environ = {})
        => /\ EventsOf(events', "interactive_prompt") = {}
           /\ (call'.op = "get_access_token" /\ result'.err # NoError)
                  => result'.err.detail = "no_cached_token"]_vars

\* C19: auth.json is written through and round-trips: in every state the record that
\* json.load reads from auth.json has the keys and values of the record in memory, and
\* _load_auth in a new process yields that record again.
C19_AuthFileRoundTrips ==
    /\ auth_file.state = "json" => DOMAIN auth_file.obj = DOMAIN auth_info
    /\ json_load(auth_file.obj) = auth_info
    /\ _load_auth(Machine).info = auth_info
    /\ _load_auth(Machine).file = auth_file

\* C19 happens: the record of a system-assigned managed identity, whose client id is
\* None, was written beside a tenant id and reads back
C19_Witness ==
    /\ call.op = "set_managed_identity"
    /\ DOMAIN auth_info = {FAB_TENANT_ID, IDENTITY_TYPE, FAB_SPN_CLIENT_ID}
    /\ auth_info[FAB_SPN_CLIENT_ID] = None
    /\ auth_file.obj[FAB_SPN_CLIENT_ID] = "null"
    /\ auth_file.obj[FAB_TENANT_ID] = json_dumps_value(auth_info[FAB_TENANT_ID])

\* the bearer-token overrides of an environment
PrimaryTokens(env) == {"FAB_TOKEN", "FAB_TOKEN_ONELAKE"} \cap DOMAIN env
PairedTokenRequired ==
    FabricCLIError("both_fab_and_onelake_tokens_required", "ERROR_AUTHENTICATION_FAILED")
TokenCalls == {"get_access_token", "get_token_claims"}

\* C14: with exactly one of FAB_TOKEN and FAB_TOKEN_ONELAKE set, the override lookup
\* raises the paired-token error for every scope, and a get_access_token call fails
\* with it before anything else happens; with neither set the lookup returns nothing
\* and has no effect, which leaves the call to the credential.
C14_BothTokensOrNeither ==
    /\ Cardinality(PrimaryTokens(environ)) = 1
           => /\ \A scope \in Scopes, jwks \in {{}, KeyIds} :
                      _get_access_token_from_env_vars_if_exist(Machine, environ, scope, jwks)
                          = Raise(Machine, PairedTokenRequired)
              /\ call.op \in TokenCalls
                     => /\ result.err = PairedTokenRequired
                        /\ result.ret = NoToken
                        /\ events = <<>>
    /\ PrimaryTokens(environ) = {}
           => /\ \A scope \in Scopes, jwks \in {{}, KeyIds} :
                      _get_access_token_from_env_vars_if_exist(Machine, environ, scope, jwks)
                          = Machine
              /\ call.op \in TokenCalls => result.err # PairedTokenRequired

\* C14 happens: the OneLake token alone was set and a token of the OneLake scope was
\* asked for
C14_Witness ==
    /\ call.op = "get_access_token"
    /\ call.scope = SCOPE_ONELAKE_DEFAULT
    /\ PrimaryTokens(environ) = {"FAB_TOKEN_ONELAKE"}
    /\ result.err = PairedTokenRequired

\* the override an environment holds for a scope
OverrideOf(env, scope) ==
    IF scope = SCOPE_FABRIC_DEFAULT THEN env["FAB_TOKEN"]
    ELSE IF scope = SCOPE_ONELAKE_DEFAULT THEN env["FAB_TOKEN_ONELAKE"]
    ELSE Get(env, "FAB_TOKEN_AZURE")

\* C15: in a process with both FAB_TOKEN and FAB_TOKEN_ONELAKE set no credential is
\* ever built or asked, neither at start-up nor by get_access_token, and a
\* get_access_token call returns the override of its scope or fails.
C15_TokensBypassCredentials ==
    Cardinality(PrimaryTokens(environ)) = 2
        => /\ credential = NoCredential
           /\ EventsOf(events, "credential_set") = {}
           /\ EventsOf(events, "token_request") = {}
           /\ EventsOf(events, "interactive_prompt") = {}
           /\ (call.op = "get_access_token" /\ result.err = NoError)
                  => result.ret = OverrideOf(environ, call.scope)

\* C16: a get_access_token call that fails raises a FabricCLIError with a status code.
C16_OnlyTaggedErrors ==
    (call.op = "get_access_token" /\ result.err # NoError)
        => result.err.type = "FabricCLIError" /\ result.err.code # None

C18_ExactlyOneCredentialVariable ==
    ("FAB_SPN_CLIENT_ID" \in DOMAIN environ /\ ~managed_identity_enabled(environ))
        => LET v == _validate_environment_variables(environ)
           IN  /\ IF "FAB_TENANT_ID" \notin DOMAIN environ
                  THEN v # NoError
                  ELSE v = NoError <=> Cardinality(CredentialVars \cap DOMAIN environ) = 1
               /\ (call.op = "__init__" /\ v # NoError) => result.err = v

----------------------------------------------------------------------------
(* Properties of the interactive shell *)

\* the shell did e in its last step
Did(e) == \E i \in 1..Len(output) : output[i].e = e

\* The last line failed in parsing or dispatch: it could not be tokenized or its handler
\* had no function to call or raised (an exception reached the loop), its subcommand
\* is unknown, its arguments were rejected, or its handler asked the process to exit.
CommandFailed ==
    \/ should_exit.kind = "raise" /\ should_exit.value # "KeyboardInterrupt"
    \/ Did("parser.error")
    \/ Did("parse_args")
    \/ should_exit.kind = "return" /\ should_exit.value = None /\ Did("func")

\* C20: the interactive shell never exits on a command error.  Whenever the loop has
\* handed a line to handle_command and the line fails in parsing or dispatch, the
\* error is reported and the loop is at its top again, still running, where all it
\* can do is show the prompt and read the next line; and the
\* only line on which handle_command ends the loop is an explicit quit.
C20_ShellSurvivesCommandErrors ==
    [][repl = "handle_command" =>
           /\ CommandFailed' => (repl' = "loop" /\ _is_running' /\ output' # <<>>)
           /\ repl' = "returned" => should_exit'.value = "True"]_vars

\* the part of a line that handle_command dispatches: what stands before the pipe when
\* the line is split, the line itself otherwise
CliPortion(line) ==
    IF _has_pipe(line) /\ _split_pipe(line)[1] # <<>> /\ _split_pipe(line)[2] # <<>>
    THEN _split_pipe(line)[1]
    ELSE line

\* C21: on a line that is exactly a quit built-in handle_command returns True and the
\* loop ends right after it; on a line whose CLI portion is no quit built-in
\* handle_command returns a result that is not the exit signal and the loop goes on.
C21_QuitAndOnlyQuitExits ==
    [][(repl = "handle_command" /\ should_exit' # NotHandled) =>
           /\ user_input \in INTERACTIVE_QUIT_COMMANDS =>
                  (should_exit'.kind = "return" /\ should_exit'.value = "True"
                   /\ repl' = "returned")
           /\ CliPortion(user_input) \notin INTERACTIVE_QUIT_COMMANDS =>
                  (should_exit'.kind = "return" /\ should_exit'.value # "True"
                   /\ repl' = "loop")]_vars

\* self.session.prompt raised EOFError in the last step
ReadEOF == user_input = <<"EOFError">>

\* C22: when the prompt read reaches end of input, the loop ends, start_interactive
\* returns with the running flag cleared, and the farewell message has been printed.
C22_EOFEndsWithFarewell ==
    [][(repl = "prompt" /\ ReadEOF') =>
           (repl' = "returned" /\ ~_is_running' /\ Did("exit_message")')]_vars

\* self.session.prompt raised KeyboardInterrupt in the last step
ReadInterrupt == user_input = <<"KeyboardInterrupt">>

\* C23: a Ctrl-C raised while the shell reads its prompt is caught and reported; the
\* session does not end and the running flag stays set; and the loop then shows a
\* new prompt.
C23_CtrlCAtPromptKeepsSession ==
    /\ [][(repl = "prompt" /\ ReadInterrupt') =>
             (repl' = "loop" /\ _is_running /\ _is_running'
              /\ output' = <<ShellEvent("use_quit_or_exit")>>)]_vars
    /\ (ReadInterrupt /\ repl = "loop") ~> (repl = "prompt" /\ _is_running)

C23_Witness == ReadInterrupt /\ repl = "loop" /\ _is_running /\ Did("use_quit_or_exit")

\* The scanners were applied to user_input in the last step: what they returned.
Scanned == output # <<>> /\ output[1].e = "_has_pipe"
HasPipeResult == output[1].input[1]
SplitPipeResult == <<output[2].cmd, output[2].args>>

\* The quoting of a line after its first n segments, by the rules of the shell words
\* the dispatcher tokenizes with: a backslash escapes the next character outside
\* quotes and inside double quotes, and is an ordinary character inside single quotes.
RECURSIVE Quoting(_, _)
Quoting(s, n) ==
    IF n = 0 THEN "plain"
    ELSE LET before == Quoting(s, n - 1)
             c == s[n]
         IN  IF before = "plain"
             THEN IF c = Backslash THEN "escape"
                  ELSE IF c = SingleQuote THEN "single"
                  ELSE IF c = DoubleQuote THEN "double"
                  ELSE "plain"
             ELSE IF before = "single"
             THEN IF c = SingleQuote THEN "plain" ELSE "single"
             ELSE IF before = "double"
             THEN IF c = DoubleQuote THEN "plain"
                  ELSE IF c = Backslash THEN "double_escape"
                  ELSE "double"
             ELSE IF before = "escape" THEN "plain"
             ELSE "double"

\* the pipes of a line that are outside quotes and not escaped
FreePipes(s) == {i \in 1..Len(s) : s[i] = Pipe /\ Quoting(s, i - 1) = "plain"}
FirstFreePipe(s) == CHOOSE i \in FreePipes(s) : \A j \in FreePipes(s) : i <= j

\* without its leading and trailing whitespace
Trimmed(s) ==
    LET inner == {i \in 1..Len(s) : s[i] # Space}
    IN  IF inner = {} THEN <<>>
        ELSE LET first == CHOOSE i \in inner : \A j \in inner : i <= j
                 last == CHOOSE i \in inner : \A j \in inner : j <= i
             IN  SubSeq(s, first, last)

\* C24: pipe splitting returns the text before and the text after the first pipe of
\* the line that is outside single quotes, outside double quotes and not escaped by
\* a backslash, both trimmed; a line in which every pipe is quoted or escaped is not
\* split: the result is the trimmed line and an empty shell portion.
C24_SplitAtFirstFreePipe ==
    Scanned =>
        SplitPipeResult =
            IF FreePipes(user_input) = {}
            THEN <<Trimmed(user_input), <<>> >>
            ELSE <<Trimmed(SubSeq(user_input, 1, FirstFreePipe(user_input) - 1)),
                   Trimmed(SubSeq(user_input, FirstFreePipe(user_input) + 1,
                                  Len(user_input)))>>

\* The quoting of a line after its first n segments as the scanners of the shell
\* track it: a backslash escapes the next character wherever it stands, inside single
\* quotes too.
RECURSIVE Scanning(_, _)
Scanning(s, n) ==
    IF n = 0 THEN "plain"
    ELSE LET before == Scanning(s, n - 1)
             c == s[n]
         IN  IF before = "plain"
             THEN IF c = Backslash THEN "escape"
                  ELSE IF c = SingleQuote THEN "single"
                  ELSE IF c = DoubleQuote THEN "double"
                  ELSE "plain"
             ELSE IF before = "single"
             THEN IF c = SingleQuote THEN "plain"
                  ELSE IF c = Backslash THEN "single_escape"
                  ELSE "single"
             ELSE IF before = "double"
             THEN IF c = DoubleQuote THEN "plain"
                  ELSE IF c = Backslash THEN "double_escape"
                  ELSE "double"
             ELSE IF before = "escape" THEN "plain"
             ELSE IF before = "single_escape" THEN "single"
             ELSE "double"

UnescapedPipes(s) == {i \in 1..Len(s) : s[i] = Pipe /\ Scanning(s, i - 1) = "plain"}
FirstUnescapedPipe(s) == CHOOSE i \in UnescapedPipes(s) : \A j \in UnescapedPipes(s) : i <= j

\* C24, amended: pipe splitting returns the trimmed text before and after the first
\* pipe of the line that is outside quotes and not escaped, where a backslash escapes
\* the character after it everywhere, inside single quotes too (so that a backslash
\* before a closing single quote keeps the quote open); a line without such a pipe is
\* not split: the result is the trimmed line and an empty shell portion.
C24_SplitAtFirstUnescapedPipe ==
    Scanned =>
        SplitPipeResult =
            IF UnescapedPipes(user_input) = {}
            THEN <<Trimmed(user_input), <<>> >>
            ELSE <<Trimmed(SubSeq(user_input, 1, FirstUnescapedPipe(user_input) - 1)),
                   Trimmed(SubSeq(user_input, FirstUnescapedPipe(user_input) + 1,
                                  Len(user_input)))>>

\* a line is split at its second pipe, the first being escaped, and both parts are there
C24_Witness ==
    /\ Scanned
    /\ UnescapedPipes(user_input) # {}
    /\ \E i \in 1..Len(user_input) :
           user_input[i] = Pipe /\ i < FirstUnescapedPipe(user_input)
    /\ SplitPipeResult[1] # <<>>
    /\ SplitPipeResult[2] # <<>>

\* the places of the output where the shell did e
Positions(e) == {i \in 1..Len(output) : output[i].e = e}

\* The line has a pipe outside quotes, a CLI portion that names a registered
\* subcommand and is no built-in, and a shell portion.
PipedSubcommand(line) ==
    /\ _has_pipe(line)
    /\ _split_pipe(line)[1] # <<>>
    /\ _split_pipe(line)[2] # <<>>
    /\ ~IsBuiltin(_split_pipe(line)[1])
    /\ shlex_split(_split_pipe(line)[1]).err = None
    /\ shlex_split(_split_pipe(line)[1]).parts # <<>>
    /\ shlex_split(_split_pipe(line)[1]).parts[1] \in SubparserChoices

\* handle_command has just worked on a piped subcommand
PipedSubcommandHandled ==
    repl = "handle_command" /\ should_exit' # NotHandled /\ PipedSubcommand(user_input)

\* The handler was called once, and after it had ended and the streams were restored
\* the shell portion was run once, on what the handler wrote to stdout followed by
\* what it wrote to stderr; handle_command returned a result that is no exit signal.
DispatchedThenPiped ==
    /\ Cardinality(Positions("func")) = 1
    /\ Cardinality(Positions("subprocess.run")) = 1
    /\ \A i \in Positions("func"), j \in Positions("restore"),
          k \in Positions("subprocess.run") :
           /\ i < j /\ j < k
           /\ output[k].cmd = _split_pipe(user_input)[2]
           /\ output[k].input = <<HandlerStdout, HandlerStderr>>
    /\ should_exit.kind = "return"
    /\ should_exit.value # "True"

PipedEmpty ==
    /\ Cardinality(Positions("subprocess.run")) = 1
    /\ \A k \in Positions("subprocess.run") :
           /\ output[k].cmd = _split_pipe(user_input)[2]
           /\ output[k].input = <<>>
           /\ \A i \in Positions("func") \cup Positions("restore") : i < k
    /\ Cardinality(Positions("func")) <= 1
    /\ should_exit.kind = "return"
    /\ should_exit.value # "True"

RECURSIVE Streams(_, _)
Streams(out, n) ==
    IF n = 0 THEN "terminal"
    ELSE IF out[n].e = "redirect" THEN "buffers"
    ELSE IF out[n].e = "restore" THEN "terminal"
    ELSE Streams(out, n - 1)

\* C26: the redirection of output lasts for the dispatch call only.  Whenever
\* _execute_cli_command has finished, by returning, by the handler raising or by a
\* parse failure, sys.stdout and sys.stderr are the streams installed before the
\* call; and while they are redirected nothing but the handler runs: the pipe target
\* and the messages of the loop see the streams of the terminal.
C26_RedirectionEndsWithDispatch ==
    /\ Streams(output, Len(output)) = "terminal"
    /\ \A n \in 1..Len(output) :
           Streams(output, n - 1) = "buffers" => output[n].e \in {"func", "raise", "restore"}

\* a handler raised an exception while the streams were redirected, and it left
\* handle_command
C26_Witness ==
    /\ Did("redirect")
    /\ Did("raise")
    /\ should_exit.kind = "raise"
    /\ should_exit.value = "Exception"
    /\ repl = "returned"

\* start_interactive has printed the welcome and entered its loop
LoopStarted == output = <<ShellEvent("welcome")>>

\* start_interactive has refused to start
StartRefused == output = <<ShellEvent("already_running")>>

\* C27: the running flag prevents a re-entrant start.  The flag is set exactly while
\* the one read-eval loop is active, so it is false again whenever a session has
\* ended, by quit, end of input, error or exception, and a later start is then
\* accepted; a loop is started only when none is running; and start_interactive
\* called while a session is running returns at once, leaving the loop where it is
\* and the flag set.
C27_RunningFlagPreventsReentrantStart ==
    /\ [](_is_running <=> repl # "returned")
    /\ [](repl = "returned" => ENABLED (StartInteractive /\ _is_running' /\ repl' = "loop"))
    /\ [][LoopStarted' => (~_is_running /\ repl = "returned" /\ _is_running')]_vars
    /\ [][StartRefused' =>
              (_is_running /\ UNCHANGED <<_is_running, repl, user_input, should_exit>>)]_vars

\* start_interactive was called while handle_command was about to run in a running
\* session, and returned without touching it
C27_Witness ==
    /\ StartRefused
    /\ _is_running
    /\ repl = "handle_command"
    /\ user_input \in INTERACTIVE_HELP_COMMANDS

\* the signals whose delivery the last step saw
Delivered == {signum \in Signals :
                 \E n \in 1..Len(output) :
                     /\ output[n].e = "signal_received"
                     /\ output[n].cmd = <<signal_names[signum]>>}

\* C28: with the signal handlers installed, the delivery of SIGINT, SIGTERM,
\* SIGQUIT or SIGHUP in any state of the program, the parsing and the dispatch of
\* an interactive command included, ends the process with exit status 128 + the
\* number of the signal.
C28_SignalTerminatesProcess ==
    [][\A signum \in Delivered' : exit_status' = <<128 + signum>>]_vars

\* build_item_payload has been called for a Notebook with a definition
NotebookWithDefinition ==
    /\ call.op = "build_item_payload"
    /\ call.item.item_type = NOTEBOOK
    /\ call.definition # <<>>

\* C29: for a Notebook with a definition build_item_payload takes the format of the
\* definition from input_format: '.py' gives a definition with the parts and no
\* format key, '.ipynb' gives the format 'ipynb', and no input_format gives the
\* format 'fabricGitSource'; the parts are those of the definition passed in.
C29_NotebookFormatFromInputFormat ==
    NotebookWithDefinition =>
        /\ result.err = NoError
        /\ "definition" \in DOMAIN result.ret
        /\ result.ret.definition.parts = call.definition[1].parts
        /\ call.input_format = ".py" => "format" \notin DOMAIN result.ret.definition
        /\ call.input_format = ".ipynb" =>
               /\ "format" \in DOMAIN result.ret.definition
               /\ result.ret.definition.format = "ipynb"
        /\ call.input_format = None =>
               /\ "format" \in DOMAIN result.ret.definition
               /\ result.ret.definition.format = "fabricGitSource"

\* the operations that change the identity, and the start of a process
StateChangingOperations ==
    {"__init__", "logout", "set_spn", "set_managed_identity", "set_tenant", "set_access_mode"}

\* the credential objects the last operation constructed, the requests it made
\* through a handle, and whether it logged out (on a tenant change), as positions
\* in its events
Constructions == {n \in 1..Len(events) : events[n].e = "credential_set"}
HandleUses == {n \in 1..Len(events) : events[n].e \in {"interactive_prompt", "token_request"}}
LoggedOut == \E n \in 1..Len(events) : events[n].e = "logout"

\* C30: the credential handle is cached for the process.  An operation that is no
\* state-changing one constructs at most one credential object, and none when a
\* handle is held; every request of get_access_token goes through the handle held,
\* or through the one the call constructed; and the handle stays as it is until a
\* state-changing operation, or a logout on a change of tenant, replaces it.  So
\* between two state-changing operations at most one credential is constructed, and
\* all token calls use it.
C30_CredentialHandleIsCached ==
    [][call'.op \notin StateChangingOperations =>
          /\ Cardinality(Constructions') <= 1
          /\ credential # NoCredential =>
                 /\ Constructions' = {}
                 /\ \A n \in HandleUses' : events'[n].cred = credential
                 /\ ~LoggedOut' => credential' = credential
          /\ credential = NoCredential =>
                 /\ \A n \in HandleUses' : Constructions' # {} /\ \A k \in Constructions' : k < n
                 /\ \A n \in HandleUses', k \in Constructions' :
                        events'[n].cred = events'[k].cred
                 /\ ~LoggedOut' =>
                        \/ Constructions' = {} /\ credential' = NoCredential
                        \/ \E k \in Constructions' : credential' = events'[k].cred]_vars

\* a token acquired from the identity provider through a handle that was there
\* before the call and is still there after it
C30_Witness ==
    /\ call.op = "get_access_token"
    /\ result.err = NoError
    /\ credential # NoCredential
    /\ Constructions = {}
    /\ HandleUses # {}
    /\ \A n \in HandleUses : events[n].cred = credential

\* the last operation fetched the key set of the provider
Fetched == \E n \in 1..Len(events) : events[n].e = "fetch_public_key"

InvalidToken == FabricCLIError("jwt_decode_failed", "ERROR_AUTHENTICATION_FAILED")

\* the token of the call decodes with the key: its signature is of that key and its
\* audience is the expected one, when one is expected
DecodesWith(c, key) ==
    /\ c.token.signer = key
    /\ c.expected_audience # None => c.token.aud = c.expected_audience

\* C31: the slot of the cached public key changes only when a token was decoded
\* with a freshly fetched key, and then holds that key.  A decode that succeeds with
\* the cached key fetches nothing and leaves the slot as it is; a decode that fails
\* (no key of the token's key id, bad signature, wrong audience, failed fetch)
\* raises the invalid-token error and leaves the slot as it is; logout never
\* clears the slot.
C31_KeySlotChangesOnFreshDecodeOnly ==
    [][/\ call'.op = "_decode_jwt_token" =>
              LET cached == aad_public_key # None /\ DecodesWith(call', aad_public_key)
                  fresh == call'.token.kid \in call'.jwks /\ DecodesWith(call', call'.token.kid)
              IN  /\ cached =>
                         ~Fetched' /\ result'.err = NoError /\ UNCHANGED aad_public_key
                  /\ (~cached /\ fresh) =>
                         Fetched' /\ result'.err = NoError /\ aad_public_key' = call'.token.kid
                  /\ (~cached /\ ~fresh) =>
                         Fetched' /\ result'.err = InvalidToken /\ UNCHANGED aad_public_key
       /\ call'.op = "logout" => UNCHANGED aad_public_key
       /\ aad_public_key' # aad_public_key =>
              call'.op = "_decode_jwt_token" /\ Fetched' /\ result'.err = NoError]_vars

\* a decode with the cached key failed, the key set was fetched, and the slot holds
\* the key that decoded the token
C31_Witness ==
    /\ call.op = "_decode_jwt_token"
    /\ Fetched
    /\ result.err = NoError
    /\ aad_public_key = call.token.kid
    /\ call.token.kid = "key2"
    /\ call.expected_audience = call.token.aud

\* the last operation wrote auth.json
Wrote == \E n \in 1..Len(events) : events[n].e = "write_auth"

\* C32: _load_auth gives the empty record when auth.json is absent or empty.
\* Otherwise, when it has completed, neither the record in memory nor the file has
\* the legacy mode key or the obsolete authority key, a legacy mode is stored as the
\* identity type, and the file holds the record in memory.  A second load gives the
\* same record and writes nothing.
C32_LoadMigratesOnce ==
    [][call'.op = "_load_auth" =>
          /\ auth_file.state # "json" =>
                 auth_info' = EmptyRec /\ ~Wrote' /\ UNCHANGED auth_file
          /\ auth_file.state = "json" =>
                 /\ DOMAIN auth_info' \cap {FAB_AUTH_MODE, FAB_AUTHORITY} = {}
                 /\ DOMAIN auth_file'.obj \cap {FAB_AUTH_MODE, FAB_AUTHORITY} = {}
                 /\ FAB_AUTH_MODE \in DOMAIN auth_file.obj =>
                        /\ IDENTITY_TYPE \in DOMAIN auth_info'
                        /\ auth_info'[IDENTITY_TYPE] = json_loads_value(auth_file.obj[FAB_AUTH_MODE])
                 /\ auth_file'.state = "json"
                 /\ auth_file'.obj = json_dumps(auth_info')
                 /\ \A k \in DOMAIN auth_file.obj \ {FAB_AUTH_MODE, FAB_AUTHORITY, IDENTITY_TYPE} :
                        k \in DOMAIN auth_info' /\ auth_info'[k] = json_loads_value(auth_file.obj[k])
          /\ call.op = "_load_auth" =>
                 ~Wrote' /\ UNCHANGED <<auth_info, auth_file>>]_vars

\* a file with both legacy keys and an identity type of its own has been loaded and
\* written back
C32_Witness ==
    /\ call.op = "_load_auth"
    /\ Wrote
    /\ Len(events) = 2
    /\ auth_info = (IDENTITY_TYPE :> "service_principal") @@ (FAB_TENANT_ID :> "tenant1")
    /\ auth_file.obj = json_dumps(auth_info)

\* C33: a get_access_token call that succeeds returns the token acquired and leaves
\* the identity type, the client id, the credential handle it held and the token
\* cache file as they were; for a user identity the one change of state allowed is
\* that the stored tenant id becomes the tid claim of the token.
C33_TokenCallKeepsIdentity ==
    [][(call'.op = "get_access_token" /\ result'.err = NoError) =>
          /\ result'.ret # NoToken
          /\ Get(auth_info', IDENTITY_TYPE) = Get(auth_info, IDENTITY_TYPE)
          /\ Get(auth_info', FAB_SPN_CLIENT_ID) = Get(auth_info, FAB_SPN_CLIENT_ID)
          /\ credential # NoCredential => credential' = credential
          /\ cache_file' = cache_file
          /\ auth_info' # auth_info =>
                 /\ Get(auth_info, IDENTITY_TYPE) = "user"
                 /\ auth_info' = Update(auth_info, FAB_TENANT_ID :> result'.ret.tid)
          /\ json_load(auth_file'.obj) = auth_info']_vars

\* the identity type a credential of the kind is for
IdentityTypeOf(kind) ==
    CASE kind \in {"ClientSecretCredential", "CertificateCredential"} -> "service_principal"
      [] kind = "ManagedIdentityCredential" -> "managed_identity"
      [] kind = "InteractiveBrowserCredential" -> "user"
      [] OTHER -> None

\* C34: in every reachable state a credential handle that is held is of the kind of
\* the persisted identity type: a service-principal credential only under
\* service_principal, a managed-identity credential only under managed_identity, an
\* interactive credential only under user, also after a set_* call that failed
\* part-way.
C34_HandleMatchesIdentityType ==
    credential # NoCredential => IdentityTypeOf(credential.kind) = PersistedType

\* C35: a set_spn call that fails, for whatever reason (no credential form, a
\* federated token, a certificate that cannot be read or parsed), leaves the
\* identity record in memory and on disk, the credential handle and the token cache
\* file as they were before the call.
C35_FailedSetSpnChangesNothing ==
    [][(call'.op = "set_spn" /\ result'.err # NoError) =>
          UNCHANGED <<auth_info, auth_file, credential, cache_file>>]_vars

\* C36: after the start-up of a process whose environment has the tenant id T and a
\* valid service principal (client id with secret or certificate), the persisted
\* tenant id is T and the credential of the service principal is built for tenant T,
\* whatever tenant id and client id auth.json held before.
C36_EnvTenantIsUsed ==
    (call.op = "__init__" /\ environ \in SpnLoginEnvs) =>
        /\ result.err = NoError
        /\ PersistedTenant = environ["FAB_TENANT_ID"]
        /\ IdentityTypeOf(credential.kind) = "service_principal"
        /\ credential.client = environ["FAB_SPN_CLIENT_ID"]
        /\ credential.tenant = environ["FAB_TENANT_ID"]

\* the errors of the validations of _load_env
ValidationErrors ==
    {"managed_identity_incompatible_vars", "tenant_id_env_var_required",
     "spn_auth_missing_credential", "invalid_guid", "invalid_cert_path",
     "invalid_cert_format"}

\* C37: a start-up whose environment fails a validation (conflicting or incomplete
\* variables, a tenant or client id that is not a GUID, an invalid certificate path)
\* leaves auth.json, cache.bin and the configuration as they were before it.
C37_FailedStartupChangesNothing ==
    [][(/\ call'.op = "__init__"
        /\ result'.err # NoError
        /\ result'.err.msg \in ValidationErrors)
        => UNCHANGED <<auth_file, cache_file, config>>]_vars

\* the built-ins a line before a pipe can be: quit, exit, help, version and bare fab
BuiltinCommands ==
    INTERACTIVE_QUIT_COMMANDS \cup INTERACTIVE_HELP_COMMANDS
        \cup INTERACTIVE_VERSION_COMMANDS \cup {<<"fab">>}

\* the line has an unquoted pipe and a built-in before it
PipedBuiltin(line) == _has_pipe(line) /\ _split_pipe(line)[1] \in BuiltinCommands

\* In this step the shell portion is not run, and handle_command ends as it ends on
\* the CLI portion alone, which is not split again.
RedispatchedOnce ==
    LET cli_cmd == _split_pipe(user_input)[1]
    IN  /\ ~Did("subprocess.run")'
        /\ ~_has_pipe(cli_cmd)
        /\ \A o \in Outcomes :
               /\ should_exit' = handle_command(cli_cmd, o)
               /\ should_exit' = Dispatch(cli_cmd, o)
        /\ output' = should_exit'.out
        /\ cli_cmd \in INTERACTIVE_QUIT_COMMANDS =>
               (should_exit'.value = "True" /\ repl' = "returned")

\* C38: on a line with an unquoted pipe whose CLI portion is a built-in, the shell
\* portion is not run and handle_command ends exactly as it ends on the CLI portion
\* alone, so that a piped quit ends the loop; the CLI portion is dispatched again at
\* most once.
C38_PipedBuiltinRunsAlone ==
    [][(repl = "handle_command" /\ should_exit' # NotHandled /\ PipedBuiltin(user_input)) =>
           RedispatchedOnce]_vars

\* C38, amended: the same on a line whose shell portion is not empty.  A line with
\* nothing after the pipe is not split: the whole line, pipe included, is dispatched,
\* and is no built-in.
C38_PipedBuiltinRunsAloneBeforeACommand ==
    [][(repl = "handle_command" /\ should_exit' # NotHandled
                                 /\ PipedBuiltin(user_input)) =>
           IF _split_pipe(user_input)[2] # <<>>
           THEN RedispatchedOnce
           ELSE /\ ~Did("subprocess.run")'
                /\ \A o \in Outcomes : should_exit' = Dispatch(user_input, o)
                /\ should_exit'.value # "True"
                /\ repl' = "loop"]_vars

\* a quit before a pipe and a command ended the loop
C38_Witness ==
    /\ PipedBuiltin(user_input)
    /\ _split_pipe(user_input)[1] \in INTERACTIVE_QUIT_COMMANDS
    /\ _split_pipe(user_input)[2] # <<>>
    /\ should_exit.value = "True"
    /\ Did("exit_message")
    /\ repl = "returned"

\* C39: the two scanners agree on every line: _has_pipe is true exactly when
\* _split_pipe splits the line (which it does exactly when the line has a pipe outside
\* quotes and not escaped); when _has_pipe is false _split_pipe returns the trimmed
\* line and an empty shell portion; and the CLI portion _split_pipe returns has no
\* pipe outside quotes and not escaped, so that neither scanner finds one in it.
C39_ScannersAgree ==
    Scanned =>
        LET unsplit == <<Trimmed(user_input), <<>> >>
            cli_cmd == SplitPipeResult[1]
            has_pipe == HasPipeResult = Bool(TRUE)
        IN  /\ HasPipeResult \in {Bool(TRUE), Bool(FALSE)}
            /\ has_pipe <=> SplitPipeResult # unsplit
            /\ has_pipe <=> UnescapedPipes(user_input) # {}
            /\ ~has_pipe => SplitPipeResult = unsplit
            /\ UnescapedPipes(cli_cmd) = {}
            /\ ~_has_pipe(cli_cmd)
            /\ _split_pipe(cli_cmd) = <<cli_cmd, <<>> >>

\* a line was split at a pipe that stands after a quoted pipe: the CLI portion has a
\* pipe, inside quotes
C39_Witness ==
    /\ Scanned
    /\ HasPipeResult = Bool(TRUE)
    /\ SplitPipeResult[2] # <<>>
    /\ \E i \in 1..Len(SplitPipeResult[1]) :
           SplitPipeResult[1][i] = Pipe /\ Scanning(SplitPipeResult[1], i - 1) = "single"

\* C40: logout is idempotent.  In every state of a process that has its FabAuth object,
\* a second logout right after a first leaves the identity record, auth.json, the
\* credential handle, cache.bin and the configuration as the first left them, and
\* neither of the two fails, the second finding no cache file to remove.
C40_LogoutIsIdempotent ==
    Constructed =>
        LET once == IF call.op = "logout" THEN Machine ELSE logout(Machine)
            twice == logout([once EXCEPT !.ev = <<>>])
        IN  /\ once.err = NoError
            /\ twice.err = NoError
            /\ ~once.cache
            /\ EventsOf(twice.ev, "cache_removed") = {}
            /\ twice.info = once.info
            /\ twice.file = once.file
            /\ twice.cred = once.cred
            /\ twice.cache = once.cache
            /\ twice.cfg = once.cfg
            /\ call.op = "logout" => result.err = NoError

\* a logout has removed cache.bin and reset an option that had been set: the next
\* logout finds no cache file
C40_Witness ==
    /\ call.op = "logout"
    /\ EventsOf(events, "cache_removed") # {}
    /\ \E n \in 1..Len(events) : events[n].e = "config_reset" /\ events[n].info # config
    /\ ~cache_file

====
